---- MODULE Spec2Model ----
(***************************************************************************)
(* Model of botman: the multi-client session registry of                   *)
(* src/botman/mcp/server.py and the page lifecycle of BrowserBot in        *)
(* src/botman/browser/core.py.                                             *)
(*                                                                         *)
(* Spec     the registry: worker threads running _call_with_errors and one *)
(*          thread running configure_browser_agent, interleaved at every   *)
(*          lock operation and every read or write of shared state.        *)
(* SpecBot  one BrowserBot: calls of a public operation through            *)
(*          _open_page, one driver call per step, each driver call able to *)
(*          fail.                                                          *)
(* SpecOps  one BrowserBot: every public operation with accepted and       *)
(*          rejected arguments, on a new manager or after navigate calls.  *)
(* SpecFields  one BrowserBot: fill_fields with field sets of every shape, *)
(*          normalised by _normalize_fields and dispatched one instruction *)
(*          per step by _fill_fields_on_page.                              *)
(* SpecUrls one persistent BrowserBot called with urls that differ in      *)
(*          their trailing slashes.                                        *)
(* SpecQuery  one BrowserBot: list_links, list_forms, list_buttons, with   *)
(*          page.evaluate returning or raising at every attempt.           *)
(* SpecLife one BrowserBot over startups, navigate calls and shutdowns,    *)
(*          each teardown step able to fail.                               *)
(* SpecAgentkit  the collectors of BrowserAgent in                         *)
(*          src/browserbot/agentkit.py.                                    *)
(* SpecHost  _storage_state_for_host, one loop iteration per step, under   *)
(*          weak fairness of the loop.                                     *)
(* SpecLocks  the registry with two client ids and shutdowns that return.  *)
(* SpecNormalize  _normalize_fields applied to an argument and then to its *)
(*          own result.                                                    *)
(* SpecSessions  one BrowserAgent: one-shot operations, sessions and       *)
(*          shutdowns, one operation per step.                             *)
(* SpecMcp  src/browserbot/fastmcp_server.py: tool calls on two threads    *)
(*          and _replace_agent on a third.                                 *)
(***************************************************************************)
EXTENDS Integers, Sequences, FiniteSets, TLC

\* ------------------------------------------------------------------ bounds
MaxCalls == 2        \* tool calls started in one run
MaxConfigs == 1      \* configure_browser_agent calls in one run
MaxOps == 3          \* BrowserBot operations called in one run
MaxFields == 2       \* entries of the fields argument of one call
MaxElements == 3     \* elements of a page that a structural query matches
MaxLabels == 3       \* labels of a host _storage_state_for_host is called with
MaxSessions == 2     \* sessions a BrowserAgent holds at once

\* --------------------------------------------------------------- registry
VARIABLES
    _session_config,         \* server.py:25  {"headless", "persist_context"}
    _session_agents,         \* server.py:26  key -> bundle (0: no entry)
    _session_registry_lock,  \* server.py:27  holder thread, or Free
    bundles,                 \* the _AgentBundle objects ever built, by identity
    pc,                      \* position of each worker thread
    client_id,               \* _call_with_errors argument of each worker
    method,                  \* _call_with_errors argument of each worker
    bundle,                  \* local `bundle` of each worker (0: unset)
    headless_arg,            \* create_browserbot's first argument, once read
    result,                  \* value _call_with_errors returned
    raised,                  \* history: what the method of the last call raised
    cpc,                     \* position of the configuring thread
    cbundles,                \* local `bundles` of _reset_sessions
    cargs,                   \* history: arguments of the last configure call
    ncalls,                  \* tool calls started so far
    nconfigs,                \* configure calls started so far
    removed,                 \* history: bundles cleared from the registry
    preexisting              \* history: bundles built before the last configure

\* ------------------------------------------------------------- BrowserBot
VARIABLES
    _persist_context,            \* core.py:60
    _playwright,                 \* core.py:61  TRUE: a started driver is held
    _browser,                    \* core.py:62  TRUE: a launched browser is held
    _context,                    \* core.py:63  context held (0: None)
    _page,                       \* core.py:64  page held (0: None)
    _current_storage_state_key,  \* core.py:75
    contexts,                    \* the driver's BrowserContext objects, by identity
    pages,                       \* the driver's Page objects, by identity
    bpc,                         \* position of the call in progress
    url,                         \* argument of the call in progress
    page,                        \* local `page` of _open_page (0: unset)
    context,                     \* local `context` of _open_page (0: unset)
    exc,                         \* outcome of the last call ended, or exception in flight
    nops,                        \* calls started so far
    entry,                       \* history: _page and its is_closed() at call entry
    resolved                     \* history: storage key of the last call that got a page

\* ------------------------------------------- BrowserBot: the call in progress
VARIABLES
    args,                \* keyword arguments of the call in progress
    selector_state,      \* local `wait_state` of submit_form / wait_for_selector
    wait_state,          \* local `wait_state` of _open_page
    instructions,        \* what _normalize_fields returned to the call
    filled,              \* local `results` of _fill_fields_on_page
    message              \* check that raised the call's ValueError/TypeError, if any

callvars == <<args, selector_state, wait_state, instructions, filled, message>>

\* ------------------------------ BrowserBot: the driver and the operation's body
VARIABLES
    browsers,            \* the driver's Browser objects, by identity
    trail,               \* history: driver calls of the query or shutdown in progress
    found,               \* history: elements the last structural query matched
    returned,            \* what the collector returned to the call (<< >>: nothing)
    body_end             \* history: how the body of the last call ended

bodyvars == <<browsers, trail, found, returned, body_end>>

\* ------------------------------------- BrowserBot: _storage_state_for_host
VARIABLES
    candidate            \* local `candidate` of _storage_state_for_host

hostvars == <<candidate>>

\* ------------------------------- BrowserAgent (src/browserbot/agentkit.py)
VARIABLES
    _sessions,           \* agentkit.py:113  session id -> _SessionState (NoSession: no entry)
    issued               \* history: session ids open_session returned, not closed since

kitvars == <<_sessions, issued>>

\* ------------------------------------- src/browserbot/fastmcp_server.py
VARIABLES
    _agent,              \* fastmcp_server.py:243  the installed BrowserAgent
    _agent_lock,         \* fastmcp_server.py:242  holder thread, or Free
    agents,              \* the BrowserAgent objects ever created, by identity
    func                 \* the agent each tool call bound its method to (0: none)

mcpvars == <<_agent, _agent_lock, agents, func>>

\* The variables of the components above: the registry and BrowserBot never
\* touch them.
sidevars == <<hostvars, kitvars, mcpvars>>

botvars == <<_persist_context, _playwright, _browser, _context, _page,
             _current_storage_state_key, contexts, pages, bpc, url, page, context,
             exc, nops, entry, resolved, callvars, bodyvars>>

vars == <<_session_config, _session_agents, _session_registry_lock, bundles, pc,
          client_id, method, bundle, headless_arg, result, raised, cpc, cbundles, cargs,
          ncalls, nconfigs, removed, preexisting, botvars, sidevars>>

regvars == <<_session_config, _session_agents, _session_registry_lock, bundles, pc,
             client_id, method, bundle, headless_arg, result, raised, cpc, cbundles, cargs,
             ncalls, nconfigs, removed, preexisting>>

\* The worker threads of asyncio.to_thread that run tool calls at once.
Workers == {1, 2}
Configurer == 0
Free == -1

\* Python's None as a client id.
NoneId == "<None>"
ClientIds == {NoneId, "", "a"}
_SESSION_KEY_DEFAULT == "__default__"
\* key = client_id or _SESSION_KEY_DEFAULT: None and "" are falsy.
SessionKey(cid) == IF cid = NoneId \/ cid = "" THEN _SESSION_KEY_DEFAULT ELSE cid
Keys == {SessionKey(c) : c \in ClientIds}

\* The BrowserBot methods the tools dispatch (server.py:116-418).
Methods == {"ensure_login", "navigate", "list_links", "extract_text", "extract_html",
            "click", "fill_fields", "submit_form", "wait_for_selector", "wait",
            "describe_dom", "list_forms", "list_buttons", "evaluate_js", "screenshot"}

\* Exception classes a BrowserBot method raises, with their base classes
\* (playwright.sync_api.TimeoutError derives from playwright.sync_api.Error;
\* the builtin TimeoutError does not).
NoExc == "none"
Mro(e) ==
    CASE e = "playwright.TimeoutError" -> {"playwright.TimeoutError", "playwright.Error", "Exception"}
      [] e = "playwright.Error" -> {"playwright.Error", "Exception"}
      [] e = "builtins.TimeoutError" -> {"builtins.TimeoutError", "OSError", "Exception"}
      [] e = "ValueError" -> {"ValueError", "Exception"}
ExcClasses == {"playwright.TimeoutError", "playwright.Error", "builtins.TimeoutError", "ValueError"}

\* The except clauses of _call_with_errors, in source order.
ErrorHandlersSwapped ==
    << [class |-> "playwright.Error", error |-> "playwright"],
       [class |-> "playwright.TimeoutError", error |-> "timeout"],
       [class |-> "Exception", error |-> "unexpected"] >>
ErrorHandlers ==
    << [class |-> "playwright.TimeoutError", error |-> "timeout"],
       [class |-> "playwright.Error", error |-> "playwright"],
       [class |-> "Exception", error |-> "unexpected"] >>

\* Index of the first except clause that matches e (0: none, e propagates).
FirstHandler(e) ==
    LET hits == {i \in DOMAIN ErrorHandlers : ErrorHandlers[i].class \in Mro(e)}
    IN IF hits = {} THEN 0 ELSE CHOOSE i \in hits : \A j \in hits : i <= j

NoResult == [payload |-> "none"]
Success(m) == [payload |-> "success"]
ErrorPayload(kind, m) == [error |-> kind, operation |-> m]

\* The configurations configure_browser_agent is called with.
Configs == {[headless |-> TRUE, persist_context |-> TRUE],
            [headless |-> FALSE, persist_context |-> FALSE]}

NewBundle(key, h, p) ==
    [key |-> key, headless |-> h, persist_context |-> p, lock |-> Free,
     live |-> FALSE, shutdowns |-> 0]

InitRegistry ==
    /\ _session_config = [headless |-> TRUE, persist_context |-> TRUE]
    /\ _session_agents = [k \in Keys |-> 0]
    /\ _session_registry_lock = Free
    /\ bundles = << >>
    /\ pc = [t \in Workers |-> "idle"]
    /\ client_id = [t \in Workers |-> NoneId]
    /\ method = [t \in Workers |-> "navigate"]
    /\ bundle = [t \in Workers |-> 0]
    /\ headless_arg = [t \in Workers |-> TRUE]
    /\ result = [t \in Workers |-> NoResult]
    /\ raised = [t \in Workers |-> NoExc]
    /\ cpc = "idle"
    /\ cbundles = << >>
    /\ cargs = [headless |-> TRUE, persist_context |-> TRUE]
    /\ ncalls = 0
    /\ nconfigs = 0
    /\ removed = {}
    /\ preexisting = {}

\* ------------------------------------------------- BrowserBot: the driver
\* A url is the sequence of its pieces: an origin or an origin with a path,
\* then the "/" characters that follow it.  NoUrl is a url argument that is
\* falsy (None or ""): the code tests `if url` only.
NoUrl == << >>
\* Python's None as a storage state or a storage key.
NoState == "<None>"
\* page.url of a page that has not navigated.
AboutBlank == <<"about:blank">>

\* The urls the operations are called with, and urlparse(url).hostname as its
\* labels.
Urls == {<<"https://a.test", "/">>, <<"https://www.a.test", "/">>,
         <<"https://b.test", "/">>, <<"https://x.test", "/">>}
UrlArgs == Urls \cup {NoUrl}
\* The urls that differ in their trailing slashes or in their path.
SlashUrls == {<<"https://x.test">>, <<"https://x.test", "/">>,
              <<"https://x.test", "/", "/">>, <<"https://x.test/a">>}
Hostname(u) ==
    CASE u[1] = "https://a.test" -> <<"a", "test">>
      [] u[1] = "https://www.a.test" -> <<"www", "a", "test">>
      [] u[1] = "https://b.test" -> <<"b", "test">>
      [] u[1] \in {"https://x.test", "https://x.test/a"} -> <<"x", "test">>

\* page.url once page.goto(target) has returned: the browser serialises an
\* origin with no path with the path "/".
Landed(target) ==
    IF target \in {<<"https://a.test">>, <<"https://www.a.test">>, <<"https://b.test">>,
                   <<"https://x.test">>}
    THEN Append(target, "/") ELSE target

\* self._domain_configs: the domains with a DomainConfig, each with its
\* storage_state_path; the state files of both exist.
DomainConfigs == {<<"a", "test">>, <<"b", "test">>}
StorageStatePath(d) ==
    CASE d = <<"a", "test">> -> "storage/a.test.json"
      [] d = <<"b", "test">> -> "storage/b.test.json"
      [] d = <<"www", "a", "test">> -> "storage/www.a.test.json"
      [] d = <<"test">> -> "storage/test.json"
PathExists(path) == path \in {"storage/a.test.json", "storage/b.test.json"}

\* A host is the sequence of its labels, the pieces between its "." characters:
\* <<"">> is the empty string, <<"a", "test", "">> is "a.test.".
\* str.lower() on the labels of the model.
LowerLabel(l) ==
    CASE l = "A" -> "a"
      [] OTHER -> l
HostLower(host) == [i \in DOMAIN host |-> LowerLabel(host[i])]

\* One iteration of the loop of _storage_state_for_host (core.py:1042-1051)
\* with the domain configs `configs` and the state files `files` that exist:
\* the loop ends with a state, or goes on with the next candidate.
\* `while candidate` ends it on the empty string, `"." not in candidate` on a
\* single label; candidate.split(".", 1)[1] drops the first label.
HostStepIgnoringFile(configs, files, c) ==
    IF c \in {<< >>, <<"">>} THEN [done |-> TRUE, state |-> NoState, candidate |-> c]
    ELSE IF c \in configs
    THEN [done |-> TRUE, state |-> StorageStatePath(c), candidate |-> c]
    ELSE IF Len(c) = 1 THEN [done |-> TRUE, state |-> NoState, candidate |-> c]
    ELSE [done |-> FALSE, state |-> NoState, candidate |-> Tail(c)]
HostStep(configs, files, c) ==
    IF c \in {<< >>, <<"">>} THEN [done |-> TRUE, state |-> NoState, candidate |-> c]
    ELSE IF c \in configs /\ StorageStatePath(c) \in files
    THEN [done |-> TRUE, state |-> StorageStatePath(c), candidate |-> c]
    ELSE IF Len(c) = 1 THEN [done |-> TRUE, state |-> NoState, candidate |-> c]
    ELSE [done |-> FALSE, state |-> NoState, candidate |-> Tail(c)]

\* The loop, from candidate c to its return value.
RECURSIVE HostWalk(_, _, _)
HostWalk(configs, files, c) ==
    LET s == HostStep(configs, files, c)
    IN IF s.done THEN s.state ELSE HostWalk(configs, files, s.candidate)

\* _storage_state_for_host(host) of the manager the operations run on.
StorageStateForHost(host) ==
    HostWalk(DomainConfigs, {p \in {StorageStatePath(d) : d \in DomainConfigs} : PathExists(p)},
             HostLower(host))

\* _storage_state_for_url
StorageStateForUrl(u) ==
    IF u = NoUrl THEN NoState ELSE StorageStateForHost(Hostname(u))

\* str.rstrip("/"): every trailing "/" is removed.
RECURSIVE RStrip(_)
RStrip(u) ==
    IF u # << >> /\ u[Len(u)] = "/" THEN RStrip(SubSeq(u, 1, Len(u) - 1)) ELSE u

\* _urls_differ(current, target)
UrlsDiffer(current, target) ==
    IF current = << >> THEN TRUE
    ELSE IF current = target THEN FALSE
    ELSE RStrip(current) # RStrip(target)

\* ------------------------------------------ BrowserBot: argument validation
ALLOWED_WAIT_STATES == {"load", "domcontentloaded", "networkidle"}
ALLOWED_SELECTOR_STATES == {"attached", "detached", "visible", "hidden"}

\* Python values an argument or a field can hold, by type and str() text; a
\* dict carries its keys and which of them hold None, a list the types of its
\* items and, when PyListOf builds it, the items.
PyBool(b) == [type |-> "bool", text |-> IF b THEN "True" ELSE "False", keys |-> {}, items |-> {}]
PyStr(t) == [type |-> "str", text |-> t, keys |-> {}, items |-> {}]
PyNone == [type |-> "NoneType", text |-> "None", keys |-> {}, items |-> {}]
PyInt(t) == [type |-> "int", text |-> t, keys |-> {}, items |-> {}]
PyDict(ks) == [type |-> "dict", text |-> "{..}", keys |-> ks, items |-> {}, nulls |-> {}]
PyDictOf(ks, nulls) == [PyDict(ks) EXCEPT !.nulls = nulls]
PyList(ts) == [type |-> "list", text |-> "[..]", keys |-> {}, items |-> ts]
PyListOf(elems) ==
    [type |-> "list", text |-> "[..]", keys |-> {},
     items |-> {elems[i].type : i \in DOMAIN elems}, elems |-> elems]

\* bool(v)
Truthy(v) ==
    CASE v.type = "bool" -> v.text = "True"
      [] v.type = "NoneType" -> FALSE
      [] v.type = "str" -> v.text # ""
      [] v.type = "int" -> v.text # "0"
      [] v.type = "dict" -> v.keys # {}
      [] v.type = "list" -> v.items # {}

\* str.lower() on the strategy strings of the model.
Lower(t) ==
    CASE t = "CHECK" -> "check"
      [] t = "Type" -> "type"
      [] OTHER -> t

\* A selector is the sequence of its pieces, " " a whitespace character;
\* << >> is a falsy selector (None or "").  str.strip() removes the
\* whitespace at both ends.
RECURSIVE LStrip(_)
LStrip(t) == IF t # << >> /\ t[1] = " " THEN LStrip(Tail(t)) ELSE t
RECURSIVE RStripSpace(_)
RStripSpace(t) ==
    IF t # << >> /\ t[Len(t)] = " " THEN RStripSpace(SubSeq(t, 1, Len(t) - 1)) ELSE t
Strip(t) == RStripSpace(LStrip(t))

\* The outcome of a check or of a normalisation: the exception class raised
\* (NoExc: none) and the check that raised it.
Passed == [exc |-> NoExc, message |-> ""]
Failed(e, msg) == [exc |-> e, message |-> msg]

\* _validate_wait_state / _validate_selector_state: the value, or ValueError
\* with the sorted accepted set in its message.
ValidateWaitStateAcceptsAll(wait_until) ==
    [exc |-> NoExc, message |-> "", value |-> wait_until]
ValidateWaitState(wait_until) ==
    IF wait_until \notin ALLOWED_WAIT_STATES
    THEN [exc |-> "ValueError",
          message |-> "wait_until must be one of {domcontentloaded, load, networkidle}.",
          value |-> ""]
    ELSE [exc |-> NoExc, message |-> "", value |-> wait_until]
ValidateSelectorState(state) ==
    IF state \notin ALLOWED_SELECTOR_STATES
    THEN [exc |-> "ValueError",
          message |-> "state must be one of {attached, detached, hidden, visible}.",
          value |-> ""]
    ELSE [exc |-> NoExc, message |-> "", value |-> state]

\* ------------------------------------------- BrowserBot: _normalize_fields
\* The item _normalize_fields builds from a descriptor d (a dict entry of the
\* list): selector and value, the strategy under the first key present of
\* strategy, mode, action, and bool(clear).
DescriptorItemActionFirst(d) ==
    LET ks == {"selector", "value"}
                \cup (IF {"strategy", "mode", "action"} \cap DOMAIN d # {}
                      THEN {"strategy"} ELSE {})
                \cup (IF "clear" \in DOMAIN d THEN {"clear"} ELSE {})
    IN [k \in ks |->
          CASE k = "selector" -> d.selector
            [] k = "value" -> d.value
            [] k = "strategy" -> IF "action" \in DOMAIN d THEN d.action
                                 ELSE IF "mode" \in DOMAIN d THEN d.mode
                                 ELSE d.strategy
            [] k = "clear" -> PyBool(Truthy(d.clear))]
DescriptorItem(d) ==
    LET ks == {"selector", "value"}
                \cup (IF {"strategy", "mode", "action"} \cap DOMAIN d # {}
                      THEN {"strategy"} ELSE {})
                \cup (IF "clear" \in DOMAIN d THEN {"clear"} ELSE {})
    IN [k \in ks |->
          CASE k = "selector" -> d.selector
            [] k = "value" -> d.value
            [] k = "strategy" -> IF "strategy" \in DOMAIN d THEN d.strategy
                                 ELSE IF "mode" \in DOMAIN d THEN d.mode
                                 ELSE d.action
            [] k = "clear" -> PyBool(Truthy(d.clear))]
PairItem(pr) == [selector |-> pr[1], value |-> pr[2]]

\* An entry of a list is a dict ([dict |-> d]), a two-item list or tuple
\* ([pair |-> <<selector, value>>]) or anything else ([other |-> ..]).
EntryFailure(e) ==
    IF "dict" \in DOMAIN e
    THEN IF {"selector", "value"} \subseteq DOMAIN e.dict THEN Passed
         ELSE Failed("ValueError", "Each field mapping must include 'selector' and 'value'.")
    ELSE IF "pair" \in DOMAIN e THEN Passed
    ELSE Failed("TypeError", "fields must be a mapping, or a sequence")
EntryItem(e) == IF "dict" \in DOMAIN e THEN DescriptorItem(e.dict) ELSE PairItem(e.pair)

\* The entries of the argument, in iteration order: fields.items() of a
\* mapping, the list itself otherwise.
FieldEntries(fields) ==
    IF "map" \in DOMAIN fields
    THEN [i \in DOMAIN fields.map |-> [pair |-> fields.map[i]]]
    ELSE fields.list

FirstIndex(S) == CHOOSE i \in S : \A j \in S : i <= j

\* _normalize_fields(fields): the first loop raises at the first malformed
\* entry, the second at the first selector that is empty once stripped; an
\* empty result raises; None returns [] at once.
NormalizeFieldsKeepsBlank(fields) ==
    IF "none" \in DOMAIN fields THEN [exc |-> NoExc, message |-> "", items |-> << >>]
    ELSE
    LET es == FieldEntries(fields)
        bad == {i \in DOMAIN es : EntryFailure(es[i]).exc # NoExc}
    IN IF bad # {}
       THEN [exc |-> EntryFailure(es[FirstIndex(bad)]).exc,
             message |-> EntryFailure(es[FirstIndex(bad)]).message, items |-> << >>]
       ELSE [exc |-> NoExc, message |-> "",
             items |-> [i \in DOMAIN es |->
                          [EntryItem(es[i]) EXCEPT !.selector = Strip(@)]]]
NormalizeFields(fields) ==
    IF "none" \in DOMAIN fields THEN [exc |-> NoExc, message |-> "", items |-> << >>]
    ELSE
    LET es == FieldEntries(fields)
        bad == {i \in DOMAIN es : EntryFailure(es[i]).exc # NoExc}
        blank == {i \in DOMAIN es : Strip(EntryItem(es[i]).selector) = << >>}
    IN IF bad # {}
       THEN [exc |-> EntryFailure(es[FirstIndex(bad)]).exc,
             message |-> EntryFailure(es[FirstIndex(bad)]).message, items |-> << >>]
       ELSE IF blank # {}
       THEN [exc |-> "ValueError", message |-> "Field selector must be a non-empty string.",
             items |-> << >>]
       ELSE IF es = << >>
       THEN [exc |-> "ValueError", message |-> "fields must include at least one entry.",
             items |-> << >>]
       ELSE [exc |-> NoExc, message |-> "",
             items |-> [i \in DOMAIN es |->
                          [EntryItem(es[i]) EXCEPT !.selector = Strip(@)]]]

\* ---------------------------------------- BrowserBot: _fill_fields_on_page
allowed_strategies == {"fill", "type", "check", "uncheck", "select"}

\* _is_select_value(value)
IsSelectValue(value) ==
    IF value.type = "dict" THEN value.keys \cap {"value", "label", "index"} # {}
    ELSE IF value.type \in {"list", "tuple"} THEN value.items \subseteq {"str", "dict"}
    ELSE FALSE

\* _normalize_select_option(option): the keys of value, label, index that the
\* mapping holds with a value other than None; ValueError when there is none.
NormalizeSelectOptionKeepsNone(option) ==
    LET normalized == {key \in {"value", "label", "index"} : key \in option.keys}
    IN IF normalized = {}
       THEN Failed("ValueError", "Select option mappings must include 'value', 'label', or 'index'.")
       ELSE Passed
NormalizeSelectOption(option) ==
    LET normalized == {key \in {"value", "label", "index"} :
                          key \in option.keys /\ key \notin option.nulls}
    IN IF normalized = {}
       THEN Failed("ValueError", "Select option mappings must include 'value', 'label', or 'index'.")
       ELSE Passed

\* _select_option(page, selector, value) up to page.select_option: a mapping
\* is normalised, the mappings of a list are normalised in order, any other
\* item or value is passed as str().
SelectOption(value) ==
    IF value.type = "dict" THEN NormalizeSelectOption(value)
    ELSE IF value.type \in {"list", "tuple"}
    THEN LET bad == {i \in DOMAIN value.elems :
                        /\ value.elems[i].type = "dict"
                        /\ NormalizeSelectOption(value.elems[i]).exc # NoExc}
         IN IF bad = {} THEN Passed
            ELSE NormalizeSelectOption(value.elems[CHOOSE i \in bad : \A j \in bad : i <= j])
    ELSE Passed

\* The select branch of _fill_fields_on_page: _select_option raises, or the
\* driver returns the list of the options selected.
Selected(value) ==
    IF SelectOption(value).exc # NoExc
    THEN [exc |-> SelectOption(value).exc, message |-> SelectOption(value).message,
          call |-> "", action |-> "", value |-> PyNone]
    ELSE [exc |-> NoExc, message |-> "", call |-> "page.select_option",
          action |-> "select", value |-> PyList({"str"})]

\* strategy = strategy_raw.lower() if isinstance(strategy_raw, str) else None;
\* "" stands for None as well (the code tests its truthiness and compares it
\* with the strategy names only).
StrategyOf(instruction) ==
    IF "strategy" \in DOMAIN instruction /\ instruction.strategy.type = "str"
    THEN Lower(instruction.strategy.text) ELSE ""
\* entry_clear
EntryClear(instruction, clear) ==
    IF "clear" \in DOMAIN instruction THEN Truthy(instruction.clear) ELSE clear
\* text = "" if value is None else str(value)
TextOf(value) == IF value.type = "NoneType" THEN "" ELSE value.text

\* One iteration of the loop of _fill_fields_on_page up to its driver call:
\* the exception raised, or the driver call the branch makes and the action
\* and the effective value it puts in the result.
DispatchFillFirst(instruction, clear) ==
    LET strategy == StrategyOf(instruction)
        value == instruction.value
    IN IF strategy # "" /\ strategy \notin allowed_strategies
       THEN [exc |-> "ValueError", message |-> "Unsupported field strategy",
             call |-> "", action |-> "", value |-> PyNone]
       ELSE IF strategy \in {"check", "uncheck"} \/ value.type = "bool"
       THEN LET should_check == IF strategy \in {"check", "uncheck"}
                                THEN strategy = "check" ELSE Truthy(value)
            IN [exc |-> NoExc, message |-> "",
                call |-> IF should_check THEN "locator.check" ELSE "locator.uncheck",
                action |-> IF should_check THEN "check" ELSE "uncheck",
                value |-> PyBool(should_check)]
       ELSE IF strategy = "select" \/ IsSelectValue(value)
       THEN Selected(value)
       ELSE IF EntryClear(instruction, clear)
       THEN [exc |-> NoExc, message |-> "", call |-> "page.fill", action |-> "fill",
             value |-> PyStr(TextOf(value))]
       ELSE [exc |-> NoExc, message |-> "", call |-> "page.type", action |-> "type",
             value |-> PyStr(TextOf(value))]
DispatchValueDecides(instruction, clear) ==
    LET strategy == StrategyOf(instruction)
        value == instruction.value
    IN IF strategy # "" /\ strategy \notin allowed_strategies
       THEN [exc |-> "ValueError", message |-> "Unsupported field strategy",
             call |-> "", action |-> "", value |-> PyNone]
       ELSE IF strategy \in {"check", "uncheck"} \/ value.type = "bool"
       THEN LET should_check == IF value.type = "bool"
                                THEN Truthy(value) ELSE strategy = "check"
            IN [exc |-> NoExc, message |-> "",
                call |-> IF should_check THEN "locator.check" ELSE "locator.uncheck",
                action |-> IF should_check THEN "check" ELSE "uncheck",
                value |-> PyBool(should_check)]
       ELSE IF strategy = "select" \/ IsSelectValue(value)
       THEN Selected(value)
       ELSE IF strategy = "type" \/ ~EntryClear(instruction, clear)
       THEN [exc |-> NoExc, message |-> "", call |-> "page.type", action |-> "type",
             value |-> PyStr(TextOf(value))]
       ELSE [exc |-> NoExc, message |-> "", call |-> "page.fill", action |-> "fill",
             value |-> PyStr(TextOf(value))]
DispatchTypeUnlabelled(instruction, clear) ==
    LET strategy == StrategyOf(instruction)
        value == instruction.value
    IN IF strategy # "" /\ strategy \notin allowed_strategies
       THEN [exc |-> "ValueError", message |-> "Unsupported field strategy",
             call |-> "", action |-> "", value |-> PyNone]
       ELSE IF strategy \in {"check", "uncheck"} \/ value.type = "bool"
       THEN LET should_check == IF strategy \in {"check", "uncheck"}
                                THEN strategy = "check" ELSE Truthy(value)
            IN [exc |-> NoExc, message |-> "",
                call |-> IF should_check THEN "locator.check" ELSE "locator.uncheck",
                action |-> IF should_check THEN "check" ELSE "uncheck",
                value |-> PyBool(should_check)]
       ELSE IF strategy = "select" \/ IsSelectValue(value)
       THEN Selected(value)
       ELSE IF strategy = "type" \/ ~EntryClear(instruction, clear)
       THEN [exc |-> NoExc, message |-> "", call |-> "page.type", action |-> "fill",
             value |-> PyStr(TextOf(value))]
       ELSE [exc |-> NoExc, message |-> "", call |-> "page.fill", action |-> "fill",
             value |-> PyStr(TextOf(value))]
Dispatch(instruction, clear) ==
    LET strategy == StrategyOf(instruction)
        value == instruction.value
    IN IF strategy # "" /\ strategy \notin allowed_strategies
       THEN [exc |-> "ValueError", message |-> "Unsupported field strategy",
             call |-> "", action |-> "", value |-> PyNone]
       ELSE IF strategy \in {"check", "uncheck"} \/ value.type = "bool"
       THEN LET should_check == IF strategy \in {"check", "uncheck"}
                                THEN strategy = "check" ELSE Truthy(value)
            IN [exc |-> NoExc, message |-> "",
                call |-> IF should_check THEN "locator.check" ELSE "locator.uncheck",
                action |-> IF should_check THEN "check" ELSE "uncheck",
                value |-> PyBool(should_check)]
       ELSE IF strategy = "select" \/ IsSelectValue(value)
       THEN Selected(value)
       ELSE IF strategy = "type" \/ ~EntryClear(instruction, clear)
       THEN [exc |-> NoExc, message |-> "", call |-> "page.type", action |-> "type",
             value |-> PyStr(TextOf(value))]
       ELSE [exc |-> NoExc, message |-> "", call |-> "page.fill", action |-> "fill",
             value |-> PyStr(TextOf(value))]

\* --------------------------------------------- BrowserBot: _collect_links
\* The limit argument: << >> for None, <<k>> for the integer k.
NoLimit == << >>

\* The elements root.querySelectorAll(selector) returns on a page with n
\* matching elements, in document order, by identity.
Elements(n) == [i \in 1..n |-> 10 * i]

\* Array.prototype.slice(0, k) for k >= 0.
Slice(elements, k) == SubSeq(elements, 1, IF k < Len(elements) THEN k ELSE Len(elements))

\* The value the script of _collect_links returns (core.py:1176-1196); the
\* index of Array.prototype.map starts at 0, that of a sequence at 1.
CollectScriptKeepsAll(elements, limit, root) ==
    IF root = "missing" THEN [links |-> << >>, truncated |-> FALSE, total |-> 0]
    ELSE LET total == Len(elements)
             unlimited == limit = NoLimit
             truncated == IF unlimited THEN FALSE ELSE total > limit[1]
             slice == elements
         IN [links |-> [index \in DOMAIN slice |->
                          [position |-> (index - 1) + 1, element |-> slice[index]]],
             truncated |-> truncated,
             total |-> total]
CollectScript(elements, limit, root) ==
    IF root = "missing" THEN [links |-> << >>, truncated |-> FALSE, total |-> 0]
    ELSE LET total == Len(elements)
             unlimited == limit = NoLimit
             truncated == IF unlimited THEN FALSE ELSE total > limit[1]
             slice == IF truncated THEN Slice(elements, limit[1]) ELSE elements
         IN [links |-> [index \in DOMAIN slice |->
                          [position |-> (index - 1) + 1, element |-> slice[index]]],
             truncated |-> truncated,
             total |-> total]

\* What _collect_links makes of the script's value (core.py:1209-1220): the
\* value is a dict of three keys, so `not result` is false.
CollectResult(value) ==
    [links |-> value.links, truncated |-> value.truncated, total |-> value.total]

\* The message of the Error a query raises when the page navigated under it.
StaleContext == "Execution context was destroyed"

\* except Error as exc: the handler retries (core.py:1205); o is the outcome
\* of page.evaluate, attempt the loop variable.
RetriesAnyError(o, attempt) == o # "ok" /\ attempt < 2
Retries(o, attempt) == o = "stale" /\ attempt < 2

\* ------------------------------------------- BrowserBot: the public operations
\* The operations that run through _open_page (all but ensure_login).
PageMethods == Methods \ {"ensure_login"}

\* The keyword arguments of a call; an operation reads the ones it declares.
\* selector is the operation's required selector (submit_selector for
\* submit_form, called with no form_selector); "" is a falsy value (None or
\* "") of selector and of post_wait.  root_selector names whether list_links
\* got one and whether the page has an element for it.
DefaultArgs ==
    [method |-> "navigate", wait_until |-> "load", selector |-> "#s",
     state |-> "visible", post_wait |-> "networkidle", fields |-> [none |-> TRUE],
     clear_existing |-> TRUE, delay_ms |-> 1000, image_format |-> "png",
     script |-> "1", limit |-> <<200>>, root_selector |-> "none"]
\* The default arguments of operation m.
Arg(m) == [DefaultArgs EXCEPT !.method = m]

\* The checks an operation makes before it enters _open_page, in source
\* order: its required arguments, _validate_selector_state, _normalize_fields.
Prologue(a) ==
    LET m == a.method
        required ==
            CASE m \in {"extract_text", "click", "wait_for_selector"} /\ a.selector = ""
                   -> Failed("ValueError", "selector must be a non-empty string.")
              [] m = "submit_form" /\ a.selector = ""
                   -> Failed("ValueError", "Provide either form_selector or submit_selector.")
              [] m = "wait" /\ a.delay_ms < 0
                   -> Failed("ValueError", "delay_ms must be non-negative.")
              [] m = "screenshot" /\ a.image_format \notin {"png", "jpeg"}
                   -> Failed("ValueError", "image_format must be one of")
              [] m = "evaluate_js" /\ a.script = ""
                   -> Failed("ValueError", "script must be a non-empty string.")
              [] OTHER -> Passed
        st == IF m \in {"submit_form", "wait_for_selector"}
              THEN ValidateSelectorState(a.state)
              ELSE [exc |-> NoExc, message |-> "", value |-> ""]
        truthy == /\ "none" \notin DOMAIN a.fields
                  /\ FieldEntries(a.fields) # << >>
        nf == IF m = "fill_fields" \/ (m = "submit_form" /\ truthy)
              THEN NormalizeFields(a.fields)
              ELSE [exc |-> NoExc, message |-> "", items |-> << >>]
    IN IF required.exc # NoExc
       THEN [exc |-> required.exc, message |-> required.message,
             selector_state |-> "", items |-> << >>]
       ELSE IF st.exc # NoExc
       THEN [exc |-> st.exc, message |-> st.message, selector_state |-> "", items |-> << >>]
       ELSE [exc |-> nf.exc, message |-> nf.message, selector_state |-> st.value,
             items |-> nf.items]

InitBotFields ==
    /\ _playwright = FALSE
    /\ _browser = FALSE
    /\ _context = 0
    /\ _page = 0
    /\ _current_storage_state_key = NoState
    /\ contexts = << >>
    /\ pages = << >>
    /\ bpc = "idle"
    /\ url = NoUrl
    /\ page = 0
    /\ context = 0
    /\ exc = NoExc
    /\ nops = 0
    /\ entry = [page |-> 0, closed |-> FALSE, body_raised |-> FALSE]
    /\ resolved = NoState
    /\ args = DefaultArgs
    /\ selector_state = ""
    /\ wait_state = ""
    /\ instructions = << >>
    /\ filled = << >>
    /\ message = ""
    /\ browsers = << >>
    /\ trail = << >>
    /\ found = 0
    /\ returned = << >>
    /\ body_end = "none"

\* The components beside the registry and BrowserBot: no walk in progress, a
\* BrowserAgent with no session, the agent created when fastmcp_server is
\* imported.
SessionIds == 1..MaxSessions
NoSession == [context |-> 0, page |-> 0]
InitSide ==
    /\ candidate = << >>
    /\ _sessions = [i \in SessionIds |-> NoSession]
    /\ issued = {}
    /\ _agent = 1
    /\ _agent_lock = Free
    /\ agents = <<[headless |-> TRUE, live |-> FALSE, shutdowns |-> 0, calls |-> 0]>>
    /\ func = [t \in Workers |-> 0]

\* The registry, with no BrowserBot operation in progress.
Init ==
    /\ InitRegistry
    /\ InitBotFields
    /\ InitSide
    /\ _persist_context = TRUE

\* One BrowserBot, built with persist_context True or False.
InitBot ==
    /\ InitRegistry
    /\ InitBotFields
    /\ InitSide
    /\ _persist_context \in BOOLEAN

\* The values of the registry in insertion order.  An entry is inserted when
\* its bundle is built and never overwritten, so insertion order is the order
\* of the bundles' identities.
RECURSIVE Ascending(_)
Ascending(S) ==
    IF S = {} THEN << >>
    ELSE LET m == CHOOSE x \in S : \A y \in S : x <= y
         IN <<m>> \o Ascending(S \ {m})
RegistryValues == Ascending({_session_agents[k] : k \in Keys} \ {0})

workerlocals == <<client_id, method, bundle, headless_arg, result, raised>>
cfglocals == <<cpc, cbundles, cargs, nconfigs, preexisting>>

\* ------------------------------------------------ _call_with_errors (worker)
\* The value of _call_with_errors for an outcome of _call_agent: the payload,
\* or the dict of the first matching except clause; "raise" when no clause
\* matches and the exception leaves _call_with_errors.
Outcome(e, m) ==
    IF e = NoExc THEN Success(m)
    ELSE IF FirstHandler(e) = 0 THEN [payload |-> "raise"]
    ELSE ErrorPayload(ErrorHandlers[FirstHandler(e)].error, m)

\* A tool coroutine hands _call_with_errors(m, cid, ...) to worker thread t,
\* which enters _call_agent and _get_agent_bundle.  The key is in the registry:
\* the with block is entered, bundle = _session_agents.get(key) is not None,
\* the with block is left.
GetBundleFound(t, cid, m) ==
    /\ pc[t] = "idle"
    /\ ncalls < MaxCalls
    /\ ncalls' = ncalls + 1
    /\ _session_registry_lock = Free
    /\ _session_agents[SessionKey(cid)] # 0
    /\ client_id' = [client_id EXCEPT ![t] = cid]
    /\ method' = [method EXCEPT ![t] = m]
    /\ result' = [result EXCEPT ![t] = NoResult]
    /\ raised' = [raised EXCEPT ![t] = NoExc]
    /\ bundle' = [bundle EXCEPT ![t] = _session_agents[SessionKey(cid)]]
    /\ pc' = [pc EXCEPT ![t] = "lock_wait"]
    /\ UNCHANGED <<_session_config, _session_agents, _session_registry_lock, bundles,
                   headless_arg, removed, botvars,
                   sidevars>>
    /\ UNCHANGED cfglocals

\* The same, the key is not in the registry: the with block is entered and
\* bundle is None; the registry lock stays held.
GetBundleMissing(t, cid, m) ==
    /\ pc[t] = "idle"
    /\ ncalls < MaxCalls
    /\ ncalls' = ncalls + 1
    /\ _session_registry_lock = Free
    /\ _session_agents[SessionKey(cid)] = 0
    /\ _session_registry_lock' = t
    /\ client_id' = [client_id EXCEPT ![t] = cid]
    /\ method' = [method EXCEPT ![t] = m]
    /\ result' = [result EXCEPT ![t] = NoResult]
    /\ raised' = [raised EXCEPT ![t] = NoExc]
    /\ bundle' = [bundle EXCEPT ![t] = 0]
    /\ pc' = [pc EXCEPT ![t] = "get_headless"]
    /\ UNCHANGED <<_session_config, _session_agents, bundles, headless_arg, removed, botvars,
                   sidevars>>
    /\ UNCHANGED cfglocals

\* headless=_session_config["headless"], the first argument evaluated.
GetBundleReadHeadless(t) ==
    /\ pc[t] = "get_headless"
    /\ headless_arg' = [headless_arg EXCEPT ![t] = _session_config.headless]
    /\ pc' = [pc EXCEPT ![t] = "get_create"]
    /\ UNCHANGED <<_session_config, _session_agents, _session_registry_lock, bundles,
                   client_id, method, bundle, result, raised, ncalls, removed, botvars,
                   sidevars>>
    /\ UNCHANGED cfglocals

\* persist_context=_session_config["persist_context"]; the BrowserBot and its
\* bundle are built (the constructor issues no browser call) and stored; the
\* with block is left.
GetBundleCreateKeepsRegistryLock(t) ==
    /\ pc[t] = "get_create"
    /\ bundles' = Append(bundles, NewBundle(SessionKey(client_id[t]), headless_arg[t],
                                            _session_config.persist_context))
    /\ bundle' = [bundle EXCEPT ![t] = Len(bundles')]
    /\ _session_agents' = [_session_agents EXCEPT ![SessionKey(client_id[t])] = Len(bundles')]
    /\ headless_arg' = [headless_arg EXCEPT ![t] = TRUE]
    /\ pc' = [pc EXCEPT ![t] = "lock_wait"]
    /\ UNCHANGED <<_session_config, _session_registry_lock, client_id, method, result,
                   raised, ncalls, removed, botvars, sidevars>>
    /\ UNCHANGED cfglocals
GetBundleCreateNotStored(t) ==
    /\ pc[t] = "get_create"
    /\ bundles' = Append(bundles, NewBundle(SessionKey(client_id[t]), headless_arg[t],
                                            _session_config.persist_context))
    /\ bundle' = [bundle EXCEPT ![t] = Len(bundles')]
    /\ headless_arg' = [headless_arg EXCEPT ![t] = TRUE]
    /\ _session_registry_lock' = Free
    /\ pc' = [pc EXCEPT ![t] = "lock_wait"]
    /\ UNCHANGED <<_session_config, _session_agents, client_id, method, result, raised,
                   ncalls, removed, botvars,
                   sidevars>>
    /\ UNCHANGED cfglocals
GetBundleCreate(t) ==
    /\ pc[t] = "get_create"
    /\ bundles' = Append(bundles, NewBundle(SessionKey(client_id[t]), headless_arg[t],
                                            _session_config.persist_context))
    /\ bundle' = [bundle EXCEPT ![t] = Len(bundles')]
    /\ _session_agents' = [_session_agents EXCEPT ![SessionKey(client_id[t])] = Len(bundles')]
    /\ headless_arg' = [headless_arg EXCEPT ![t] = TRUE]
    /\ _session_registry_lock' = Free
    /\ pc' = [pc EXCEPT ![t] = "lock_wait"]
    /\ UNCHANGED <<_session_config, client_id, method, result, raised, ncalls, removed, botvars,
                   sidevars>>
    /\ UNCHANGED cfglocals

\* _call_agent: `with bundle.lock:` is entered and the method is called.
AcquireBundleLockNoWait(t) ==
    /\ pc[t] = "lock_wait"
    /\ bundles' = [bundles EXCEPT ![bundle[t]].lock = t]
    /\ pc' = [pc EXCEPT ![t] = "exec"]
    /\ UNCHANGED <<_session_config, _session_agents, _session_registry_lock,
                   ncalls, removed, botvars,
                   sidevars>>
    /\ UNCHANGED workerlocals
    /\ UNCHANGED cfglocals
AcquireBundleLock(t) ==
    /\ pc[t] = "lock_wait"
    /\ bundles[bundle[t]].lock = Free
    /\ bundles' = [bundles EXCEPT ![bundle[t]].lock = t]
    /\ pc' = [pc EXCEPT ![t] = "exec"]
    /\ UNCHANGED <<_session_config, _session_agents, _session_registry_lock,
                   ncalls, removed, botvars,
                   sidevars>>
    /\ UNCHANGED workerlocals
    /\ UNCHANGED cfglocals

\* The method reaches _ensure_browser and startup() launches the browser
\* process of the manager.
MethodStartup(t) ==
    /\ pc[t] = "exec"
    /\ ~bundles[bundle[t]].live
    /\ bundles' = [bundles EXCEPT ![bundle[t]].live = TRUE]
    /\ UNCHANGED <<_session_config, _session_agents, _session_registry_lock, pc,
                   ncalls, removed, botvars,
                   sidevars>>
    /\ UNCHANGED workerlocals
    /\ UNCHANGED cfglocals

\* The method ends with outcome e (NoExc: it returns its payload; otherwise it
\* raises e, in its validation or in a browser call); the with block of
\* _call_agent is left and _call_with_errors returns its value to the tool
\* (the arguments of the call are gone with its frame).
MethodEndKeepsLockOnRaise(t, e) ==
    /\ pc[t] = "exec"
    /\ bundles' = IF e = NoExc THEN [bundles EXCEPT ![bundle[t]].lock = Free] ELSE bundles
    /\ result' = [result EXCEPT ![t] = Outcome(e, method[t])]
    /\ raised' = [raised EXCEPT ![t] = e]
    /\ client_id' = [client_id EXCEPT ![t] = NoneId]
    /\ pc' = [pc EXCEPT ![t] = "idle"]
    /\ UNCHANGED <<_session_config, _session_agents, _session_registry_lock,
                   method, bundle, headless_arg, ncalls, removed, botvars,
                   sidevars>>
    /\ UNCHANGED cfglocals
MethodEnd(t, e) ==
    /\ pc[t] = "exec"
    /\ bundles' = [bundles EXCEPT ![bundle[t]].lock = Free]
    /\ result' = [result EXCEPT ![t] = Outcome(e, method[t])]
    /\ raised' = [raised EXCEPT ![t] = e]
    /\ client_id' = [client_id EXCEPT ![t] = NoneId]
    /\ pc' = [pc EXCEPT ![t] = "idle"]
    /\ UNCHANGED <<_session_config, _session_agents, _session_registry_lock,
                   method, bundle, headless_arg, ncalls, removed, botvars,
                   sidevars>>
    /\ UNCHANGED cfglocals

\* ------------------------------------- configure_browser_agent (configurer)
\* _session_config = {...}, then _reset_sessions() is entered.
ConfigureBrowserAgent(h, p) ==
    /\ cpc = "idle"
    /\ nconfigs < MaxConfigs
    /\ nconfigs' = nconfigs + 1
    /\ _session_config' = [headless |-> h, persist_context |-> p]
    /\ cargs' = [headless |-> h, persist_context |-> p]
    /\ preexisting' = 1..Len(bundles)
    /\ cpc' = "reset"
    /\ UNCHANGED <<_session_agents, _session_registry_lock, bundles, pc, cbundles,
                   ncalls, removed, botvars,
                   sidevars>>
    /\ UNCHANGED workerlocals

\* _reset_sessions: the with block is entered,
\* bundles = list(_session_agents.values()); _session_agents.clear(),
\* and the with block is left.
ResetClearKeepsEntries ==
    /\ cpc = "reset"
    /\ _session_registry_lock = Free
    /\ cbundles' = RegistryValues
    /\ cpc' = "reset_loop"
    /\ UNCHANGED <<_session_config, _session_agents, _session_registry_lock, bundles, pc,
                   cargs, ncalls, nconfigs, removed, preexisting, botvars,
                   sidevars>>
    /\ UNCHANGED workerlocals
ResetClear ==
    /\ cpc = "reset"
    /\ _session_registry_lock = Free
    /\ cbundles' = RegistryValues
    /\ _session_agents' = [k \in Keys |-> 0]
    /\ removed' = removed \cup ({_session_agents[k] : k \in Keys} \ {0})
    /\ cpc' = "reset_loop"
    /\ UNCHANGED <<_session_config, _session_registry_lock, bundles, pc, cargs, ncalls,
                   nconfigs, preexisting, botvars,
                   sidevars>>
    /\ UNCHANGED workerlocals

\* for bundle in bundles: bundle.bot.shutdown() is entered (no lock is taken).
ResetShutdownStart ==
    /\ cpc = "reset_loop"
    /\ cbundles # << >>
    /\ bundles' = [bundles EXCEPT ![Head(cbundles)].shutdowns = @ + 1]
    /\ cpc' = "reset_shutdown"
    /\ UNCHANGED <<_session_config, _session_agents, _session_registry_lock, pc, cbundles,
                   cargs, ncalls, nconfigs, removed, preexisting, botvars,
                   sidevars>>
    /\ UNCHANGED workerlocals

\* shutdown() returns: page, context and browser closed, the driver stopped.
ResetShutdownEnd ==
    /\ cpc = "reset_shutdown"
    /\ bundles' = [bundles EXCEPT ![Head(cbundles)].live = FALSE]
    /\ cbundles' = Tail(cbundles)
    /\ cpc' = "reset_loop"
    /\ UNCHANGED <<_session_config, _session_agents, _session_registry_lock, pc,
                   cargs, ncalls, nconfigs, removed, preexisting, botvars,
                   sidevars>>
    /\ UNCHANGED workerlocals

\* shutdown() raises in browser.close() or playwright.stop(): the browser
\* stays; `except Exception: pass` goes on with the next bundle.
ResetShutdownRaises ==
    /\ cpc = "reset_shutdown"
    /\ bundles[Head(cbundles)].live
    /\ cbundles' = Tail(cbundles)
    /\ cpc' = "reset_loop"
    /\ UNCHANGED <<_session_config, _session_agents, _session_registry_lock, bundles, pc,
                   cargs, ncalls, nconfigs, removed, preexisting, botvars,
                   sidevars>>
    /\ UNCHANGED workerlocals

\* The loop of _reset_sessions ends; configure_browser_agent returns.
ResetReturn ==
    /\ cpc = "reset_loop"
    /\ cbundles = << >>
    /\ cpc' = "idle"
    /\ UNCHANGED <<_session_config, _session_agents, _session_registry_lock, bundles, pc,
                   cbundles, cargs, ncalls, nconfigs, removed, preexisting, botvars,
                   sidevars>>
    /\ UNCHANGED workerlocals

\* The registry under a fixed method, with one raised class: the interleavings
\* of the workers and the configuring thread.  The threads of the pool are
\* alike: the first call of a run is the one on worker 1.
Next ==
    \/ \E t \in Workers, cid \in ClientIds :
          (t = 1 \/ ncalls > 0) /\ GetBundleFound(t, cid, "navigate")
    \/ \E t \in Workers, cid \in ClientIds :
          (t = 1 \/ ncalls > 0) /\ GetBundleMissing(t, cid, "navigate")
    \/ \E t \in Workers : GetBundleReadHeadless(t)
    \/ \E t \in Workers : GetBundleCreate(t)
    \/ \E t \in Workers : AcquireBundleLock(t)
    \/ \E t \in Workers : MethodStartup(t)
    \/ \E t \in Workers, e \in {NoExc, "playwright.TimeoutError"} : MethodEnd(t, e)
    \/ \E c \in Configs : ConfigureBrowserAgent(c.headless, c.persist_context)
    \/ ResetClear
    \/ ResetShutdownStart
    \/ ResetShutdownEnd
    \/ ResetShutdownRaises
    \/ ResetReturn

Spec == Init /\ [][Next]_vars

\* The locks: two clients with different keys, one configuration, every
\* shutdown returning; by the symmetry of the pool's threads the first call
\* runs on worker 1.
NextLocks ==
    \/ \E t \in Workers, cid \in {NoneId, "a"} :
          (t = 1 \/ ncalls > 0) /\ GetBundleFound(t, cid, "navigate")
    \/ \E t \in Workers, cid \in {NoneId, "a"} :
          (t = 1 \/ ncalls > 0) /\ GetBundleMissing(t, cid, "navigate")
    \/ \E t \in Workers : GetBundleReadHeadless(t)
    \/ \E t \in Workers : GetBundleCreate(t)
    \/ \E t \in Workers : AcquireBundleLock(t)
    \/ \E t \in Workers : MethodStartup(t)
    \/ \E t \in Workers, e \in {NoExc, "playwright.TimeoutError"} : MethodEnd(t, e)
    \/ ConfigureBrowserAgent(FALSE, FALSE)
    \/ ResetClear
    \/ ResetShutdownStart
    \/ ResetShutdownEnd
    \/ ResetReturn

SpecLocks == Init /\ [][NextLocks]_vars

\* The tool-serving boundary: one worker, every method, every raised class.
NextBoundary ==
    \/ \E cid \in ClientIds, m \in Methods : GetBundleFound(1, cid, m)
    \/ \E cid \in ClientIds, m \in Methods : GetBundleMissing(1, cid, m)
    \/ GetBundleReadHeadless(1)
    \/ GetBundleCreate(1)
    \/ AcquireBundleLock(1)
    \/ MethodStartup(1)
    \/ \E e \in ExcClasses \cup {NoExc} : MethodEnd(1, e)

SpecBoundary == Init /\ [][NextBoundary]_vars

\* ------------------------------------------------ BrowserBot: _open_page
\* The call ends by raising e: the exception leaves the operation.
Raise(e) ==
    /\ exc' = e
    /\ bpc' = "idle"

\* A public operation is called with arguments a and url u: its own checks,
\* then _open_page up to its first browser call (core.py:1098-1102,
\* 1119-1123): _validate_wait_state, and in disposable mode the url check.
Call(a, u) ==
    /\ bpc = "idle"
    /\ nops < MaxOps
    /\ nops' = nops + 1
    /\ url' = u
    /\ page' = 0
    /\ context' = 0
    /\ entry' = [page |-> _page, closed |-> IF _page = 0 THEN FALSE ELSE pages[_page].closed,
                 body_raised |-> body_end = "raised"]
    /\ args' = a
    /\ filled' = << >>
    /\ trail' = << >>
    /\ returned' = << >>
    /\ body_end' = "none"
    /\ LET p == Prologue(a)
           w == ValidateWaitState(a.wait_until)
       IN /\ selector_state' = p.selector_state
          /\ instructions' = p.items
          /\ IF p.exc # NoExc
             THEN Raise(p.exc) /\ message' = p.message /\ wait_state' = ""
             ELSE IF w.exc # NoExc
             THEN Raise(w.exc) /\ message' = w.message /\ wait_state' = ""
             ELSE /\ wait_state' = w.value
                  /\ IF ~_persist_context /\ u = NoUrl
                     THEN Raise("ValueError") /\ message' = "url must be a non-empty string."
                     ELSE bpc' = "ensure_browser" /\ UNCHANGED exc /\ message' = ""
    /\ UNCHANGED <<_persist_context, _playwright, _browser, _context, _page,
                   _current_storage_state_key, contexts, pages, resolved, browsers,
                   found>>
    /\ UNCHANGED regvars
    /\ UNCHANGED sidevars

\* navigate(u), with the default wait_until.
OpenPage(u) == Call(DefaultArgs, u)

\* _ensure_browser and startup: sync_playwright().start() and chromium.launch()
\* run when no driver is held; o names the driver call that fails, if any.
EnsureBrowser(o) ==
    /\ bpc = "ensure_browser"
    /\ IF _playwright
       THEN /\ o = "ok"
            /\ UNCHANGED <<_playwright, _browser, browsers>>
            /\ IF _browser
               THEN bpc' = (IF _persist_context THEN "ensure_page" ELSE "new_context")
                    /\ UNCHANGED exc
               ELSE Raise("RuntimeError")
       ELSE CASE o = "ok" ->
                   /\ _playwright' = TRUE
                   /\ _browser' = TRUE
                   /\ browsers' = Append(browsers, [closed |-> FALSE])
                   /\ bpc' = (IF _persist_context THEN "ensure_page" ELSE "new_context")
                   /\ UNCHANGED exc
              [] o = "start_fails" ->
                   /\ UNCHANGED <<_playwright, _browser, browsers>>
                   /\ Raise("playwright.Error")
              [] o = "launch_fails" ->
                   /\ _playwright' = TRUE
                   /\ UNCHANGED <<_browser, browsers>>
                   /\ Raise("playwright.Error")
    /\ UNCHANGED <<_persist_context, _context, _page, _current_storage_state_key,
                   contexts, pages, url, page, context, nops, entry, resolved>>
    /\ UNCHANGED regvars
    /\ UNCHANGED sidevars
    /\ UNCHANGED callvars
    /\ UNCHANGED <<trail, found, returned, body_end>>

\* needs_new_context of _ensure_persistent_page for storage state st.
NeedsNewContextIgnoringClosed(st) ==
    \/ _context = 0
    \/ _page = 0
    \/ _current_storage_state_key # st
NeedsNewContext(st) ==
    \/ _context = 0
    \/ _page = 0
    \/ pages[_page].closed
    \/ _current_storage_state_key # st

\* The driver closes context c: the pages of c are closed with it.
PagesAfterContextClose(c) ==
    [i \in DOMAIN pages |->
        IF pages[i].context = c THEN [pages[i] EXCEPT !.closed = TRUE] ELSE pages[i]]
\* The driver closes page q.
PagesAfterPageClose(q) ==
    IF q = 0 THEN pages ELSE [pages EXCEPT ![q].closed = TRUE]

\* _ensure_persistent_page up to browser.new_context: the held page is
\* returned, or _close_persistent_context() runs (page.close() and
\* context.close(), their exceptions swallowed: a close that raises leaves its
\* target gone all the same).
EnsurePersistentPageKeepsPagelessContext ==
    /\ bpc = "ensure_page"
    /\ IF NeedsNewContext(StorageStateForUrl(url))
       THEN /\ pages' = [i \in DOMAIN pages |->
                           IF i = _page \/ (_context # 0 /\ pages[i].context = _context)
                           THEN [pages[i] EXCEPT !.closed = TRUE] ELSE pages[i]]
            /\ contexts' = IF _context = 0 \/ _page = 0 THEN contexts
                           ELSE [contexts EXCEPT ![_context].closed = TRUE]
            /\ _page' = 0
            /\ _context' = 0
            /\ bpc' = "persistent_context"
            /\ UNCHANGED <<page, resolved>>
       ELSE /\ page' = _page
            /\ resolved' = StorageStateForUrl(url)
            /\ bpc' = "navigate"
            /\ UNCHANGED <<pages, contexts, _page, _context>>
    /\ UNCHANGED <<_persist_context, _playwright, _browser, _current_storage_state_key,
                   url, context, exc, nops, entry>>
    /\ UNCHANGED regvars
    /\ UNCHANGED sidevars
    /\ UNCHANGED callvars
    /\ UNCHANGED bodyvars
EnsurePersistentPage ==
    /\ bpc = "ensure_page"
    /\ IF NeedsNewContext(StorageStateForUrl(url))
       THEN /\ pages' = [i \in DOMAIN pages |->
                           IF i = _page \/ (_context # 0 /\ pages[i].context = _context)
                           THEN [pages[i] EXCEPT !.closed = TRUE] ELSE pages[i]]
            /\ contexts' = IF _context = 0 THEN contexts
                           ELSE [contexts EXCEPT ![_context].closed = TRUE]
            /\ _page' = 0
            /\ _context' = 0
            /\ bpc' = "persistent_context"
            /\ UNCHANGED <<page, resolved>>
       ELSE /\ page' = _page
            /\ resolved' = StorageStateForUrl(url)
            /\ bpc' = "navigate"
            /\ UNCHANGED <<pages, contexts, _page, _context>>
    /\ UNCHANGED <<_persist_context, _playwright, _browser, _current_storage_state_key,
                   url, context, exc, nops, entry>>
    /\ UNCHANGED regvars
    /\ UNCHANGED sidevars
    /\ UNCHANGED callvars
    /\ UNCHANGED bodyvars

\* self._context = browser.new_context(storage_state=state_arg), or it raises.
PersistentNewContext(ok) ==
    /\ bpc = "persistent_context"
    /\ IF ok
       THEN /\ contexts' = Append(contexts, [closed |-> FALSE, persistent |-> TRUE,
                                             storage_state |-> StorageStateForUrl(url)])
            /\ _context' = Len(contexts')
            /\ bpc' = "persistent_page"
            /\ UNCHANGED exc
       ELSE /\ Raise("playwright.Error")
            /\ UNCHANGED <<contexts, _context>>
    /\ UNCHANGED <<_persist_context, _playwright, _browser, _page,
                   _current_storage_state_key, pages, url, page, context, nops, entry,
                   resolved>>
    /\ UNCHANGED regvars
    /\ UNCHANGED sidevars
    /\ UNCHANGED callvars
    /\ UNCHANGED bodyvars

\* self._page = self._context.new_page(), or it raises; then
\* self._current_storage_state_key = storage_key; return self._page.
PersistentNewPageKeepsKey(ok) ==
    /\ bpc = "persistent_page"
    /\ IF ok
       THEN /\ pages' = Append(pages, [context |-> _context, closed |-> FALSE,
                                       url |-> AboutBlank])
            /\ _page' = Len(pages')
            /\ page' = Len(pages')
            /\ resolved' = StorageStateForUrl(url)
            /\ bpc' = "navigate"
            /\ UNCHANGED exc
       ELSE /\ Raise("playwright.Error")
            /\ UNCHANGED <<pages, _page, page, resolved>>
    /\ UNCHANGED <<_persist_context, _playwright, _browser, _context, contexts, url,
                   _current_storage_state_key, context, nops, entry>>
    /\ UNCHANGED regvars
    /\ UNCHANGED sidevars
    /\ UNCHANGED callvars
    /\ UNCHANGED bodyvars
PersistentNewPage(ok) ==
    /\ bpc = "persistent_page"
    /\ IF ok
       THEN /\ pages' = Append(pages, [context |-> _context, closed |-> FALSE,
                                       url |-> AboutBlank])
            /\ _page' = Len(pages')
            /\ page' = Len(pages')
            /\ _current_storage_state_key' = StorageStateForUrl(url)
            /\ resolved' = StorageStateForUrl(url)
            /\ bpc' = "navigate"
            /\ UNCHANGED exc
       ELSE /\ Raise("playwright.Error")
            /\ UNCHANGED <<pages, _page, page, _current_storage_state_key, resolved>>
    /\ UNCHANGED <<_persist_context, _playwright, _browser, _context, contexts, url,
                   context, nops, entry>>
    /\ UNCHANGED regvars
    /\ UNCHANGED sidevars
    /\ UNCHANGED callvars
    /\ UNCHANGED bodyvars

\* _open_page, persistent mode, after _ensure_persistent_page: with a url,
\* page.goto(target) when _urls_differ, then page.wait_for_load_state; with no
\* url, ValueError when page.url is empty, else page.wait_for_load_state.  A
\* driver call on a closed page raises; o names the call that fails, if any.
PersistentNavigate(o) ==
    /\ bpc = "navigate"
    /\ pages[page].closed => o # "ok"
    /\ IF url # NoUrl
       THEN IF UrlsDiffer(pages[page].url, url)
            THEN CASE o = "ok" ->
                        /\ pages' = [pages EXCEPT ![page].url = Landed(url)]
                        /\ bpc' = "body" /\ UNCHANGED exc
                   [] o = "goto_fails" ->
                        /\ UNCHANGED pages
                        /\ Raise("playwright.Error")
                   [] o = "wait_fails" ->
                        /\ ~pages[page].closed
                        /\ pages' = [pages EXCEPT ![page].url = Landed(url)]
                        /\ Raise("playwright.Error")
            ELSE /\ o \in {"ok", "wait_fails"}
                 /\ UNCHANGED pages
                 /\ IF o = "ok" THEN bpc' = "body" /\ UNCHANGED exc
                    ELSE Raise("playwright.Error")
       ELSE IF pages[page].url = << >>
            THEN /\ o = "goto_fails"
                 /\ UNCHANGED pages
                 /\ Raise("ValueError")
            ELSE /\ o \in {"ok", "wait_fails"}
                 /\ UNCHANGED pages
                 /\ IF o = "ok" THEN bpc' = "body" /\ UNCHANGED exc
                    ELSE Raise("playwright.Error")
    /\ UNCHANGED <<_persist_context, _playwright, _browser, _context, _page,
                   _current_storage_state_key, contexts, url, page, context, nops,
                   entry, resolved>>
    /\ UNCHANGED regvars
    /\ UNCHANGED sidevars
    /\ UNCHANGED callvars
    /\ UNCHANGED bodyvars

\* Disposable mode: context = browser.new_context(storage_state=...), or it
\* raises.
NewContext(ok) ==
    /\ bpc = "new_context"
    /\ IF ok
       THEN /\ contexts' = Append(contexts, [closed |-> FALSE, persistent |-> FALSE,
                                             storage_state |-> StorageStateForUrl(url)])
            /\ context' = Len(contexts')
            /\ bpc' = "new_page"
            /\ UNCHANGED exc
       ELSE /\ Raise("playwright.Error")
            /\ UNCHANGED <<contexts, context>>
    /\ UNCHANGED <<_persist_context, _playwright, _browser, _context, _page,
                   _current_storage_state_key, pages, url, page, nops, entry, resolved>>
    /\ UNCHANGED regvars
    /\ UNCHANGED sidevars
    /\ UNCHANGED callvars
    /\ UNCHANGED bodyvars

\* page = context.new_page(), before the try block: when it raises, the
\* exception leaves _open_page.
NewPage(ok) ==
    /\ bpc = "new_page"
    /\ IF ok
       THEN /\ pages' = Append(pages, [context |-> context, closed |-> FALSE,
                                       url |-> AboutBlank])
            /\ page' = Len(pages')
            /\ bpc' = "goto"
            /\ UNCHANGED exc
       ELSE /\ Raise("playwright.Error")
            /\ UNCHANGED <<pages, page>>
    /\ UNCHANGED <<_persist_context, _playwright, _browser, _context, _page,
                   _current_storage_state_key, contexts, url, context, nops, entry,
                   resolved>>
    /\ UNCHANGED regvars
    /\ UNCHANGED sidevars
    /\ UNCHANGED callvars
    /\ UNCHANGED bodyvars

\* try: page.goto(target, wait_until=wait_state); when it raises, the finally
\* clause runs with the exception in flight.
Goto(ok) ==
    /\ bpc = "goto"
    /\ IF ok
       THEN /\ pages' = [pages EXCEPT ![page].url = Landed(url)]
            /\ bpc' = "body"
            /\ UNCHANGED exc
       ELSE /\ exc' = "playwright.Error"
            /\ bpc' = "finally"
            /\ UNCHANGED pages
    /\ UNCHANGED <<_persist_context, _playwright, _browser, _context, _page,
                   _current_storage_state_key, contexts, url, page, context, nops,
                   entry, resolved>>
    /\ UNCHANGED regvars
    /\ UNCHANGED sidevars
    /\ UNCHANGED callvars
    /\ UNCHANGED bodyvars

\* The load states page.wait_for_load_state accepts; any other raises
\* playwright's Error.
DriverLoadStates == {"load", "domcontentloaded", "networkidle", "commit"}

\* _fill_fields_on_page, one iteration: the next instruction is dispatched and
\* its driver call made; an unsupported strategy raises ValueError, a failing
\* driver call playwright's Error.
FillField(ok) ==
    /\ bpc = "body"
    /\ Len(filled) < Len(instructions)
    /\ LET instruction == instructions[Len(filled) + 1]
           d == Dispatch(instruction, args.clear_existing)
       IN IF d.exc # NoExc
          THEN /\ exc' = d.exc
               /\ message' = d.message
               /\ bpc' = IF _persist_context THEN "idle" ELSE "finally"
               /\ body_end' = "raised"
               /\ UNCHANGED <<filled, trail>>
          ELSE IF ok
          THEN /\ ~pages[page].closed
               /\ trail' = Append(trail, [call |-> d.call, outcome |-> "ok"])
               /\ filled' = Append(filled, [selector |-> instruction.selector,
                                            action |-> d.action, value |-> d.value])
               /\ UNCHANGED <<bpc, exc, message, body_end>>
          ELSE /\ trail' = Append(trail, [call |-> d.call, outcome |-> "other"])
               /\ exc' = "playwright.Error"
               /\ bpc' = IF _persist_context THEN "idle" ELSE "finally"
               /\ body_end' = "raised"
               /\ UNCHANGED <<filled, message>>
    /\ UNCHANGED <<_persist_context, _playwright, _browser, _context, _page,
                   _current_storage_state_key, contexts, pages, url, page, context,
                   nops, entry, resolved, args, selector_state, wait_state,
                   instructions, browsers, found, returned>>
    /\ UNCHANGED regvars
    /\ UNCHANGED sidevars

\* The result fill_fields builds from what _fill_fields_on_page returned
\* (core.py:338-343).
FillFieldsResult(results) == [filled |-> results, count |-> Len(results)]

\* The body of the operation runs on the yielded page and returns or raises;
\* fill_fields returns its result once every instruction is carried out.
\* Persistent mode: _open_page has nothing after the yield.  Disposable mode:
\* the finally clause follows.
BodyDropsPageOnRaise(ok) ==
    /\ bpc = "body"
    /\ Len(filled) = Len(instructions)
    /\ pages[page].closed => ~ok
    /\ (/\ args.method \in {"click", "submit_form"}
        /\ args.post_wait # ""
        /\ args.post_wait \notin DriverLoadStates) => ~ok
    /\ exc' = IF ok THEN NoExc ELSE "playwright.Error"
    /\ bpc' = IF _persist_context THEN "idle" ELSE "finally"
    /\ body_end' = IF ok THEN "returned" ELSE "raised"
    /\ _page' = IF ok \/ ~_persist_context THEN _page ELSE 0
    /\ UNCHANGED <<_persist_context, _playwright, _browser, _context,
                   _current_storage_state_key, contexts, pages, url, page, context,
                   nops, entry, resolved>>
    /\ UNCHANGED regvars
    /\ UNCHANGED sidevars
    /\ UNCHANGED callvars
    /\ returned' = IF ok /\ args.method = "fill_fields" THEN <<FillFieldsResult(filled)>>
                   ELSE returned
    /\ UNCHANGED <<browsers, trail, found>>
Body(ok) ==
    /\ bpc = "body"
    /\ Len(filled) = Len(instructions)
    /\ pages[page].closed => ~ok
    /\ (/\ args.method \in {"click", "submit_form"}
        /\ args.post_wait # ""
        /\ args.post_wait \notin DriverLoadStates) => ~ok
    /\ exc' = IF ok THEN NoExc ELSE "playwright.Error"
    /\ bpc' = IF _persist_context THEN "idle" ELSE "finally"
    /\ body_end' = IF ok THEN "returned" ELSE "raised"
    /\ UNCHANGED <<_persist_context, _playwright, _browser, _context, _page,
                   _current_storage_state_key, contexts, pages, url, page, context,
                   nops, entry, resolved>>
    /\ UNCHANGED regvars
    /\ UNCHANGED sidevars
    /\ UNCHANGED callvars
    /\ returned' = IF ok /\ args.method = "fill_fields" THEN <<FillFieldsResult(filled)>>
                   ELSE returned
    /\ UNCHANGED <<browsers, trail, found>>

\* finally: context.close().  When close() raises, its exception replaces the
\* one in flight; the context is gone all the same.
Finally(ok) ==
    /\ bpc = "finally"
    /\ contexts' = [contexts EXCEPT ![context].closed = TRUE]
    /\ pages' = PagesAfterContextClose(context)
    /\ exc' = IF ok THEN exc ELSE "playwright.Error"
    /\ bpc' = "idle"
    /\ UNCHANGED <<_persist_context, _playwright, _browser, _context, _page,
                   _current_storage_state_key, url, page, context, nops, entry,
                   resolved>>
    /\ UNCHANGED regvars
    /\ UNCHANGED sidevars
    /\ UNCHANGED callvars
    /\ UNCHANGED bodyvars

\* The held page closes outside any call of the manager (window.close() of the
\* page's script, a crashed tab).
PageCloses ==
    /\ _page # 0
    /\ ~pages[_page].closed
    /\ pages' = PagesAfterPageClose(_page)
    /\ UNCHANGED <<_persist_context, _playwright, _browser, _context, _page,
                   _current_storage_state_key, contexts, bpc, url, page, context,
                   exc, nops, entry, resolved>>
    /\ UNCHANGED regvars
    /\ UNCHANGED sidevars
    /\ UNCHANGED callvars
    /\ UNCHANGED bodyvars

\* ------------------------------------------- BrowserBot: structural queries
\* The call leaves its body: persistent mode has nothing after the yield,
\* disposable mode its finally clause.
AfterBody == IF _persist_context THEN "idle" ELSE "finally"

\* `attempt` of the loop of _collect_links: the page.evaluate calls made so far.
Attempts == Cardinality({i \in DOMAIN trail : trail[i].call = "evaluate"})

\* list_links, one iteration of the loop of _collect_links (core.py:1198-1220):
\* page.evaluate returns the value of the script on a page with n matching
\* elements, or raises Error: for the destroyed execution context ("stale") or
\* for another reason ("other").  A closed page raises.
CollectLinks(o, n) ==
    /\ bpc = "body"
    /\ args.method = "list_links"
    /\ pages[page].closed => o = "other"
    /\ o # "ok" => n = 0
    /\ args.root_selector = "missing" => n = 0
    /\ trail' = Append(trail, [call |-> "evaluate", outcome |-> o])
    /\ IF o = "ok"
       THEN /\ found' = n
            /\ returned' = <<CollectResult(CollectScript(Elements(n), args.limit,
                                                         args.root_selector))>>
            /\ exc' = NoExc
            /\ bpc' = AfterBody
            /\ body_end' = "returned"
            /\ UNCHANGED message
       ELSE IF Retries(o, Attempts)
       THEN /\ bpc' = "collect_wait"
            /\ UNCHANGED <<found, returned, exc, body_end, message>>
       ELSE /\ exc' = "playwright.Error"
            /\ message' = IF o = "stale" THEN StaleContext ELSE ""
            /\ bpc' = AfterBody
            /\ body_end' = "raised"
            /\ UNCHANGED <<found, returned>>
    /\ UNCHANGED <<_persist_context, _playwright, _browser, _context, _page,
                   _current_storage_state_key, contexts, pages, url, page, context,
                   nops, entry, resolved, args, selector_state, wait_state,
                   instructions, filled, browsers>>
    /\ UNCHANGED regvars
    /\ UNCHANGED sidevars

\* page.wait_for_load_state("load") of the handler, then `continue`; when the
\* wait raises, its Error leaves the call.
CollectWait(ok) ==
    /\ bpc = "collect_wait"
    /\ pages[page].closed => ~ok
    /\ trail' = Append(trail, [call |-> "wait_for_load_state",
                               outcome |-> IF ok THEN "ok" ELSE "other"])
    /\ IF ok
       THEN /\ bpc' = "body"
            /\ UNCHANGED <<exc, body_end>>
       ELSE /\ exc' = "playwright.Error"
            /\ bpc' = AfterBody
            /\ body_end' = "raised"
    /\ UNCHANGED <<_persist_context, _playwright, _browser, _context, _page,
                   _current_storage_state_key, contexts, pages, url, page, context,
                   nops, entry, resolved, browsers, found, returned>>
    /\ UNCHANGED regvars
    /\ UNCHANGED sidevars
    /\ UNCHANGED callvars

\* list_forms / list_buttons: forms = page.evaluate(script) (core.py:756-757,
\* 813-814), one call with no handler around it.
Evaluate(o, n) ==
    /\ bpc = "body"
    /\ args.method \in {"list_forms", "list_buttons"}
    /\ pages[page].closed => o = "other"
    /\ o # "ok" => n = 0
    /\ trail' = Append(trail, [call |-> "evaluate", outcome |-> o])
    /\ IF o = "ok"
       THEN /\ found' = n
            /\ returned' = <<[count |-> n]>>
            /\ exc' = NoExc
            /\ body_end' = "returned"
            /\ UNCHANGED message
       ELSE /\ exc' = "playwright.Error"
            /\ message' = IF o = "stale" THEN StaleContext ELSE ""
            /\ body_end' = "raised"
            /\ UNCHANGED <<found, returned>>
    /\ bpc' = AfterBody
    /\ UNCHANGED <<_persist_context, _playwright, _browser, _context, _page,
                   _current_storage_state_key, contexts, pages, url, page, context,
                   nops, entry, resolved, args, selector_state, wait_state,
                   instructions, filled, browsers>>
    /\ UNCHANGED regvars
    /\ UNCHANGED sidevars

\* ----------------------------------------- BrowserBot: startup and shutdown
\* A call of startup() or shutdown() begins: m names it.
Lifecycle(m) ==
    /\ bpc = "idle"
    /\ nops < MaxOps
    /\ nops' = nops + 1
    /\ args' = Arg(m)
    /\ trail' = << >>
    /\ returned' = << >>
    /\ body_end' = "none"

\* startup() called on the manager (core.py:88-96): it returns at once when a
\* driver is held; else sync_playwright().start() and chromium.launch() run,
\* and o names the one that fails, if any.
StartupLaunchesAlways(o) ==
    /\ Lifecycle("startup")
    /\ CASE o = "ok" ->
              /\ _playwright' = TRUE
              /\ _browser' = TRUE
              /\ browsers' = Append(browsers, [closed |-> FALSE])
              /\ exc' = NoExc
         [] o = "start_fails" ->
              /\ UNCHANGED <<_playwright, _browser, browsers>>
              /\ exc' = "playwright.Error"
         [] o = "launch_fails" ->
              /\ _playwright' = TRUE
              /\ UNCHANGED <<_browser, browsers>>
              /\ exc' = "playwright.Error"
    /\ UNCHANGED <<_persist_context, _context, _page, _current_storage_state_key,
                   contexts, pages, bpc, url, page, context, entry, resolved,
                   selector_state, wait_state, instructions, filled, message, found>>
    /\ UNCHANGED regvars
    /\ UNCHANGED sidevars
Startup(o) ==
    /\ Lifecycle("startup")
    /\ IF _playwright
       THEN /\ o = "ok"
            /\ UNCHANGED <<_playwright, _browser, browsers>>
            /\ exc' = NoExc
       ELSE CASE o = "ok" ->
                   /\ _playwright' = TRUE
                   /\ _browser' = TRUE
                   /\ browsers' = Append(browsers, [closed |-> FALSE])
                   /\ exc' = NoExc
              [] o = "start_fails" ->
                   /\ UNCHANGED <<_playwright, _browser, browsers>>
                   /\ exc' = "playwright.Error"
              [] o = "launch_fails" ->
                   /\ _playwright' = TRUE
                   /\ UNCHANGED <<_browser, browsers>>
                   /\ exc' = "playwright.Error"
    /\ UNCHANGED <<_persist_context, _context, _page, _current_storage_state_key,
                   contexts, pages, bpc, url, page, context, entry, resolved,
                   selector_state, wait_state, instructions, filled, message, found>>
    /\ UNCHANGED regvars
    /\ UNCHANGED sidevars

\* shutdown() is called (core.py:98); its first statement is
\* _close_persistent_context().
Shutdown ==
    /\ Lifecycle("shutdown")
    /\ bpc' = "close_page"
    /\ UNCHANGED <<_persist_context, _playwright, _browser, _context, _page,
                   _current_storage_state_key, contexts, pages, url, page, context,
                   exc, entry, resolved, selector_state, wait_state, instructions,
                   filled, message, browsers, found>>
    /\ UNCHANGED regvars
    /\ UNCHANGED sidevars

\* A driver call of shutdown, recorded with its outcome.
Teardown(call, ok) ==
    trail' = Append(trail, [call |-> call, outcome |-> IF ok THEN "ok" ELSE "raises"])

\* _close_persistent_context, the page (core.py:1080-1087): page.close() when
\* a page is held and not closed; `except Exception: pass`, and the finally
\* clause drops the page.
ClosePage(ok) ==
    /\ bpc = "close_page"
    /\ IF _page # 0 /\ ~pages[_page].closed
       THEN /\ Teardown("page.close", ok)
            /\ pages' = PagesAfterPageClose(_page)
       ELSE /\ ok
            /\ UNCHANGED <<trail, pages>>
    /\ _page' = 0
    /\ bpc' = "close_context"
    /\ UNCHANGED <<_persist_context, _playwright, _browser, _context,
                   _current_storage_state_key, contexts, url, page, context, exc, nops,
                   entry, resolved, browsers, found, returned, body_end>>
    /\ UNCHANGED regvars
    /\ UNCHANGED sidevars
    /\ UNCHANGED callvars

\* _close_persistent_context, the context (core.py:1088-1094), then
\* self._current_storage_state_key = None (core.py:101).
CloseContextKeepsKey(ok) ==
    /\ bpc = "close_context"
    /\ IF _context # 0
       THEN /\ Teardown("context.close", ok)
            /\ contexts' = [contexts EXCEPT ![_context].closed = TRUE]
            /\ pages' = PagesAfterContextClose(_context)
       ELSE /\ ok
            /\ UNCHANGED <<trail, contexts, pages>>
    /\ _context' = 0
    /\ bpc' = "close_browser"
    /\ UNCHANGED <<_persist_context, _playwright, _browser, _page,
                   _current_storage_state_key, url, page, context,
                   exc, nops, entry, resolved, browsers, found, returned, body_end>>
    /\ UNCHANGED regvars
    /\ UNCHANGED sidevars
    /\ UNCHANGED callvars
CloseContext(ok) ==
    /\ bpc = "close_context"
    /\ IF _context # 0
       THEN /\ Teardown("context.close", ok)
            /\ contexts' = [contexts EXCEPT ![_context].closed = TRUE]
            /\ pages' = PagesAfterContextClose(_context)
       ELSE /\ ok
            /\ UNCHANGED <<trail, contexts, pages>>
    /\ _context' = 0
    /\ _current_storage_state_key' = NoState
    /\ bpc' = "close_browser"
    /\ UNCHANGED <<_persist_context, _playwright, _browser, _page, url, page, context,
                   exc, nops, entry, resolved, browsers, found, returned, body_end>>
    /\ UNCHANGED regvars
    /\ UNCHANGED sidevars
    /\ UNCHANGED callvars

\* if self._browser is not None: self._browser.close(); self._browser = None
\* (core.py:102-104).  A close() that raises leaves shutdown with the browser
\* still held; the browser process is gone or still running.
CloseBrowser(o) ==
    /\ bpc = "close_browser"
    /\ IF ~_browser
       THEN /\ o = "ok"
            /\ bpc' = "stop_driver"
            /\ UNCHANGED <<_browser, browsers, contexts, pages, trail, exc>>
       ELSE /\ Teardown("browser.close", o = "ok")
            /\ IF o = "raises_live"
               THEN UNCHANGED <<browsers, contexts, pages>>
               ELSE /\ browsers' = [browsers EXCEPT ![Len(browsers)].closed = TRUE]
                    /\ contexts' = [c \in DOMAIN contexts |->
                                       [contexts[c] EXCEPT !.closed = TRUE]]
                    /\ pages' = [q \in DOMAIN pages |-> [pages[q] EXCEPT !.closed = TRUE]]
            /\ IF o = "ok"
               THEN /\ _browser' = FALSE
                    /\ bpc' = "stop_driver"
                    /\ UNCHANGED exc
               ELSE /\ Raise("playwright.Error")
                    /\ UNCHANGED _browser
    /\ UNCHANGED <<_persist_context, _playwright, _context, _page,
                   _current_storage_state_key, url, page, context, nops, entry,
                   resolved, found, returned, body_end>>
    /\ UNCHANGED regvars
    /\ UNCHANGED sidevars
    /\ UNCHANGED callvars

\* if self._playwright is not None: self._playwright.stop();
\* self._playwright = None (core.py:105-107); shutdown returns or stop() raises.
StopDriver(ok) ==
    /\ bpc = "stop_driver"
    /\ IF ~_playwright
       THEN /\ ok
            /\ UNCHANGED <<_playwright, trail>>
       ELSE /\ Teardown("playwright.stop", ok)
            /\ _playwright' = ~ok
    /\ exc' = IF ok THEN NoExc ELSE "playwright.Error"
    /\ bpc' = "idle"
    /\ UNCHANGED <<_persist_context, _browser, _context, _page,
                   _current_storage_state_key, contexts, pages, url, page, context,
                   nops, entry, resolved, browsers, found, returned, body_end>>
    /\ UNCHANGED regvars
    /\ UNCHANGED sidevars
    /\ UNCHANGED callvars

NextBot ==
    \/ \E u \in UrlArgs : OpenPage(u)
    \/ \E o \in {"ok", "start_fails", "launch_fails"} : EnsureBrowser(o)
    \/ EnsurePersistentPage
    \/ \E ok \in BOOLEAN : PersistentNewContext(ok)
    \/ \E ok \in BOOLEAN : PersistentNewPage(ok)
    \/ \E o \in {"ok", "goto_fails", "wait_fails"} : PersistentNavigate(o)
    \/ \E ok \in BOOLEAN : NewContext(ok)
    \/ \E ok \in BOOLEAN : NewPage(ok)
    \/ \E ok \in BOOLEAN : Goto(ok)
    \/ \E ok \in BOOLEAN : Body(ok)
    \/ \E ok \in BOOLEAN : Finally(ok)
    \/ PageCloses

SpecBot == InitBot /\ [][NextBot]_vars

\* ------------------------------------------------ the public operations
\* Values the callers pass: the accepted ones and some outside the sets.
WaitUntilArgs == ALLOWED_WAIT_STATES \cup {"bogus", "visible"}
StateArgs == ALLOWED_SELECTOR_STATES \cup {"load"}
PostWaitArgs == {"", "load", "bogus"}
SelA == <<"#a">>
OpFields == {[none |-> TRUE], [list |-> << >>],
             [list |-> <<[pair |-> <<SelA, PyStr("v")>>]>>]}

\* The calls of the operations: each with the arguments it declares.
OpArgs ==
    {[Arg(m) EXCEPT !.wait_until = w] :
        m \in {"navigate", "list_links", "extract_html", "describe_dom", "list_forms",
               "list_buttons"},
        w \in WaitUntilArgs}
    \cup {[Arg(m) EXCEPT !.wait_until = w, !.selector = sel] :
        m \in {"extract_text"}, w \in WaitUntilArgs, sel \in {"", "#s"}}
    \cup {[Arg("click") EXCEPT !.wait_until = w, !.selector = sel, !.post_wait = pw] :
        w \in WaitUntilArgs, sel \in {"", "#s"}, pw \in PostWaitArgs}
    \cup {[Arg("wait_for_selector") EXCEPT !.wait_until = w, !.selector = sel, !.state = st] :
        w \in WaitUntilArgs, sel \in {"", "#s"}, st \in StateArgs}
    \cup {[Arg("wait") EXCEPT !.wait_until = w, !.delay_ms = d] :
        w \in WaitUntilArgs, d \in {-1, 1000}}
    \cup {[Arg("screenshot") EXCEPT !.wait_until = w, !.image_format = f] :
        w \in WaitUntilArgs, f \in {"png", "gif"}}
    \cup {[Arg("evaluate_js") EXCEPT !.wait_until = w, !.script = sc] :
        w \in WaitUntilArgs, sc \in {"", "1"}}
    \cup {[Arg("fill_fields") EXCEPT !.wait_until = w, !.fields = f] :
        w \in WaitUntilArgs, f \in OpFields \ {[none |-> TRUE]}}
    \cup {[Arg("submit_form") EXCEPT !.wait_until = w, !.selector = sel, !.state = st,
                                    !.post_wait = pw, !.fields = f] :
        w \in WaitUntilArgs, sel \in {"", "#s"}, st \in StateArgs, pw \in PostWaitArgs,
        f \in OpFields}

\* One BrowserBot: after any number of navigate calls, a call of any
\* operation with any arguments, then navigate calls again; the driver calls
\* of _open_page succeed, the calls of the body succeed or fail.
CallAfterNavigates ==
    /\ bpc = "idle"
    /\ args = DefaultArgs
    /\ \E a \in OpArgs, u \in {NoUrl, <<"https://x.test", "/">>} : Call(a, u)
NextOps ==
    \/ \E u \in {<<"https://x.test", "/">>, <<"https://a.test", "/">>} : OpenPage(u)
    \/ CallAfterNavigates
    \/ EnsureBrowser("ok")
    \/ EnsurePersistentPage
    \/ PersistentNewContext(TRUE)
    \/ PersistentNewPage(TRUE)
    \/ PersistentNavigate("ok")
    \/ NewContext(TRUE)
    \/ NewPage(TRUE)
    \/ Goto(TRUE)
    \/ \E ok \in BOOLEAN : FillField(ok)
    \/ \E ok \in BOOLEAN : Body(ok)
    \/ Finally(TRUE)

SpecOps == InitBot /\ [][NextOps]_vars

\* ------------------------------------------------------ the field sets
\* Selectors, values, strategies and clear flags the callers pass.
SelPadded == <<" ", "#a", " ">>
SelB == <<"#b">>
SelBlank == <<" ">>
FieldSelectors == {SelPadded, SelB, SelBlank, << >>}
FieldValues == {PyBool(TRUE), PyBool(FALSE), PyStr("v"), PyNone, PyDict({"label"})}
StrategyArgs == {PyStr("fill"), PyStr("type"), PyStr("check"), PyStr("uncheck"),
                 PyStr("select"), PyStr("CHECK"), PyStr("press"), PyStr(""), PyNone}
ClearArgs == {PyBool(TRUE), PyBool(FALSE)}

\* A descriptor: selector, value and the optional keys of extra.
Descriptor(sel, val, extra) ==
    [k \in {"selector", "value"} \cup DOMAIN extra |->
        IF k = "selector" THEN sel ELSE IF k = "value" THEN val ELSE extra[k]]

\* Descriptors that differ in what decides the dispatch: the value, the
\* strategy, the clear flag.
DispatchDescriptors ==
    {Descriptor(SelA, v, x) :
        v \in FieldValues,
        x \in UNION {{f \in [K -> StrategyArgs \cup ClearArgs] :
                         /\ "strategy" \in K => f["strategy"] \in StrategyArgs
                         /\ "clear" \in K => f["clear"] \in ClearArgs} :
                     K \in SUBSET {"strategy", "clear"}}}
\* Descriptors that differ in which of strategy, mode, action they carry.
KeyDescriptors ==
    {Descriptor(SelPadded, PyStr("v"),
                [k \in K |-> IF k = "strategy" THEN PyStr("fill")
                             ELSE IF k = "mode" THEN PyStr("type") ELSE PyStr("check")]) :
        K \in SUBSET {"strategy", "mode", "action"} \ {{}}}
\* Values for a <select>: mappings that hold value, index or a key outside
\* the three, each with a value or None, and lists of strings and mappings.
SelectMappings ==
    UNION {{PyDictOf(ks, nulls) : nulls \in SUBSET ks} :
           ks \in SUBSET {"value", "index", "text"}}
SelectValues ==
    SelectMappings
    \cup {PyListOf(<<PyStr("o")>>)}
    \cup {PyListOf(<<m>>) : m \in SelectMappings}
    \cup {PyListOf(<<PyStr("o"), m>>) : m \in SelectMappings}
SelectDescriptors ==
    {Descriptor(SelA, v, x) :
        v \in SelectValues,
        x \in {[k \in {} |-> PyNone], [k \in {"strategy"} |-> PyStr("select")]}}
\* Entries that differ in their shape and their selector; two are malformed.
ShapeEntries ==
    {[dict |-> Descriptor(sel, v, << >>)] : sel \in FieldSelectors, v \in {PyStr("v"), PyBool(TRUE)}}
    \cup {[pair |-> <<sel, v>>] : sel \in FieldSelectors, v \in {PyStr("v"), PyBool(TRUE)}}
    \cup {[dict |-> [selector |-> SelA]], [other |-> "x"]}
    \cup {[dict |-> d] : d \in KeyDescriptors}

\* The fields arguments: lists of up to MaxFields entries, a dispatch
\* descriptor alone or after a first entry, and mappings with distinct keys.
FieldInputs ==
    {[list |-> l] : l \in UNION {[1..n -> ShapeEntries] : n \in 0..MaxFields}}
    \cup {[list |-> <<[dict |-> d]>>] : d \in DispatchDescriptors}
    \cup {[list |-> <<[pair |-> <<SelB, PyStr("v")>>], [dict |-> d]>>] :
             d \in DispatchDescriptors}
    \cup {[list |-> <<[dict |-> d]>>] : d \in SelectDescriptors}
    \cup {[list |-> <<[pair |-> <<SelB, PyStr("v")>>], [dict |-> d]>>] :
             d \in SelectDescriptors}
    \cup {[map |-> mp] :
             mp \in {q \in UNION {[1..n -> (FieldSelectors \cup {SelA})
                                            \X {PyStr("v"), PyBool(FALSE)}] :
                                   n \in 0..MaxFields} :
                       \A i, j \in DOMAIN q : i # j => q[i][1] # q[j][1]}}
FieldArgs ==
    {[Arg("fill_fields") EXCEPT !.fields = f, !.clear_existing = c] :
        f \in FieldInputs, c \in BOOLEAN}

\* One BrowserBot, its first call a fill_fields with any field set; the driver
\* calls of _open_page succeed, the calls of the body succeed or fail.
FirstCall ==
    /\ bpc = "idle"
    /\ nops = 0
    /\ \E a \in FieldArgs : Call(a, <<"https://x.test", "/">>)
NextFields ==
    \/ FirstCall
    \/ EnsureBrowser("ok")
    \/ EnsurePersistentPage
    \/ PersistentNewContext(TRUE)
    \/ PersistentNewPage(TRUE)
    \/ PersistentNavigate("ok")
    \/ NewContext(TRUE)
    \/ NewPage(TRUE)
    \/ Goto(TRUE)
    \/ \E ok \in BOOLEAN : FillField(ok)
    \/ \E ok \in BOOLEAN : Body(ok)
    \/ Finally(TRUE)

SpecFields == InitBot /\ [][NextFields]_vars

\* ------------------------------------------------- the persistent page
\* One BrowserBot in persistent mode, called with urls that differ in their
\* trailing slashes or their path; the browser starts, the navigation
\* succeeds or fails.
NextUrls ==
    \/ \E u \in SlashUrls \cup {NoUrl} : OpenPage(u)
    \/ EnsureBrowser("ok")
    \/ EnsurePersistentPage
    \/ PersistentNewContext(TRUE)
    \/ PersistentNewPage(TRUE)
    \/ \E o \in {"ok", "goto_fails", "wait_fails"} : PersistentNavigate(o)
    \/ \E ok \in BOOLEAN : Body(ok)

SpecUrls == Init /\ [][NextUrls]_vars

\* ------------------------------------------------ the manager's lifetime
\* One BrowserBot over startups, navigate calls and shutdowns; starting the
\* driver, launching, creating a disposable page, the body of a call and
\* every teardown step succeed or fail.
NextLife ==
    \/ \E u \in {<<"https://x.test", "/">>, <<"https://b.test", "/">>} : OpenPage(u)
    \/ \E o \in {"ok", "start_fails", "launch_fails"} : Startup(o)
    \/ Shutdown
    \/ \E ok \in BOOLEAN : ClosePage(ok)
    \/ \E ok \in BOOLEAN : CloseContext(ok)
    \/ \E o \in {"ok", "raises_gone", "raises_live"} : CloseBrowser(o)
    \/ \E ok \in BOOLEAN : StopDriver(ok)
    \/ \E o \in {"ok", "start_fails", "launch_fails"} : EnsureBrowser(o)
    \/ EnsurePersistentPage
    \/ PersistentNewContext(TRUE)
    \/ PersistentNewPage(TRUE)
    \/ PersistentNavigate("ok")
    \/ NewContext(TRUE)
    \/ \E ok \in BOOLEAN : NewPage(ok)
    \/ Goto(TRUE)
    \/ \E ok \in BOOLEAN : Body(ok)
    \/ Finally(TRUE)

SpecLife == InitBot /\ [][NextLife]_vars

\* ------------------------------------------------ the structural queries
\* The caps the callers pass and the calls of the three operations.
Limits == {NoLimit} \cup {<<k>> : k \in 0..MaxElements}
QueryArgs ==
    {[Arg("list_links") EXCEPT !.limit = l, !.root_selector = r] :
        l \in Limits \cup {DefaultArgs.limit}, r \in {"none", "found", "missing"}}
    \cup {Arg("list_forms"), Arg("list_buttons")}

\* One BrowserBot, its first call a structural query; the driver calls of
\* _open_page succeed, page.evaluate and the wait of the handler succeed or
\* fail.
QueryCall ==
    /\ bpc = "idle"
    /\ nops = 0
    /\ \E a \in QueryArgs : Call(a, <<"https://x.test", "/">>)
NextQuery ==
    \/ QueryCall
    \/ EnsureBrowser("ok")
    \/ EnsurePersistentPage
    \/ PersistentNewContext(TRUE)
    \/ PersistentNewPage(TRUE)
    \/ PersistentNavigate("ok")
    \/ NewContext(TRUE)
    \/ NewPage(TRUE)
    \/ Goto(TRUE)
    \/ \E o \in {"ok", "stale", "other"}, n \in 0..MaxElements : CollectLinks(o, n)
    \/ \E ok \in BOOLEAN : CollectWait(ok)
    \/ \E o \in {"ok", "stale", "other"}, n \in 0..MaxElements : Evaluate(o, n)
    \/ Finally(TRUE)

SpecQuery == InitBot /\ [][NextQuery]_vars

\* ------------------------------------- BrowserBot: _storage_state_for_host
\* _storage_state_for_host(host) is called on a manager built with the domain
\* configs `configs`, of which the state files `files` exist (core.py:1041):
\* candidate = host.lower().
HostCall(host, configs, files) ==
    /\ bpc = "idle"
    /\ nops < MaxOps
    /\ nops' = nops + 1
    /\ args' = [method |-> "_storage_state_for_host", host |-> host,
                configs |-> configs, files |-> files]
    /\ candidate' = HostLower(host)
    /\ trail' = << >>
    /\ returned' = << >>
    /\ bpc' = "host_walk"
    /\ UNCHANGED <<_persist_context, _playwright, _browser, _context, _page,
                   _current_storage_state_key, contexts, pages, url, page, context,
                   exc, entry, resolved, selector_state, wait_state, instructions,
                   filled, message, browsers, found, body_end>>
    /\ UNCHANGED regvars
    /\ UNCHANGED <<kitvars, mcpvars>>

\* One iteration of the loop (core.py:1042-1051), or its exit: trail records
\* the candidates the loop condition was evaluated on.
HostIteration ==
    /\ bpc = "host_walk"
    /\ LET s == HostStep(args.configs, args.files, candidate)
       IN /\ trail' = Append(trail, candidate)
          /\ candidate' = s.candidate
          /\ IF s.done
             THEN returned' = <<s.state>> /\ bpc' = "idle"
             ELSE UNCHANGED <<returned, bpc>>
    /\ UNCHANGED <<_persist_context, _playwright, _browser, _context, _page,
                   _current_storage_state_key, contexts, pages, url, page, context,
                   exc, nops, entry, resolved, callvars, browsers, found, body_end>>
    /\ UNCHANGED regvars
    /\ UNCHANGED <<kitvars, mcpvars>>

\* Hosts of up to MaxLabels labels: upper and lower case, empty labels (a
\* leading, doubled or trailing "."); the domains configured and the state
\* files of their configs, of which any may exist.
HostLabels == {"a", "A", "www", "test", ""}
Hosts == UNION {[1..n -> HostLabels] : n \in 1..MaxLabels}
ConfiguredDomains == {<<"a", "test">>, <<"www", "a", "test">>, <<"test">>}
StateFiles(configs) == {StorageStatePath(d) : d \in configs}

\* One manager: walks for any host, any set of domain configs and any set of
\* state files; the loop, once entered, runs on.
FirstWalk ==
    /\ bpc = "idle"
    /\ nops = 0
    /\ \E host \in Hosts, configs \in SUBSET ConfiguredDomains :
          \E files \in SUBSET StateFiles(configs) : HostCall(host, configs, files)
NextHost ==
    \/ FirstWalk
    \/ HostIteration

SpecHost == InitBot /\ [][NextHost]_vars /\ WF_vars(HostIteration)

\* --------------------------- BrowserBot: _normalize_fields on its own result
\* The instruction list as a fields argument: a list of descriptor dicts.
AsFields(items) == [list |-> [i \in DOMAIN items |-> [dict |-> items[i]]]]

\* instructions = self._normalize_fields(fields), for any fields argument,
\* None included.
NormalizeCall(fields) ==
    /\ bpc = "idle"
    /\ nops = 0
    /\ nops' = 1
    /\ args' = [method |-> "_normalize_fields", fields |-> fields]
    /\ LET r == NormalizeFields(fields)
       IN /\ instructions' = r.items
          /\ exc' = r.exc
          /\ message' = r.message
          /\ bpc' = IF r.exc = NoExc THEN "normalized" ELSE "idle"
    /\ UNCHANGED <<_persist_context, _playwright, _browser, _context, _page,
                   _current_storage_state_key, contexts, pages, url, page, context,
                   entry, resolved, selector_state, wait_state, filled>>
    /\ UNCHANGED bodyvars
    /\ UNCHANGED regvars
    /\ UNCHANGED sidevars

\* self._normalize_fields(instructions): the function applied to its result.
NormalizeAgain ==
    /\ bpc = "normalized"
    /\ nops' = 2
    /\ LET r == NormalizeFields(AsFields(instructions))
       IN /\ returned' = IF r.exc = NoExc THEN <<r.items>> ELSE << >>
          /\ exc' = r.exc
          /\ message' = r.message
    /\ bpc' = "idle"
    /\ UNCHANGED <<_persist_context, _playwright, _browser, _context, _page,
                   _current_storage_state_key, contexts, pages, url, page, context,
                   entry, resolved, args, selector_state, wait_state, instructions,
                   filled>>
    /\ UNCHANGED <<browsers, trail, found, body_end>>
    /\ UNCHANGED regvars
    /\ UNCHANGED sidevars

NextNormalize ==
    \/ \E f \in FieldInputs \cup {[none |-> TRUE]} : NormalizeCall(f)
    \/ NormalizeAgain

SpecNormalize == InitBot /\ [][NextNormalize]_vars

\* ------------------- BrowserAgent (src/browserbot/agentkit.py): the collectors
\* total = len(items); truncated = limit is not None and total > limit;
\* if truncated: items = items[: limit or total]   (agentkit.py:280-283,
\* 426-429, 485-488).  `limit or total` is total when limit is 0.
AgentTruncate(items, limit) ==
    LET total == Len(items)
        truncated == limit # NoLimit /\ total > limit[1]
        stop == IF limit # NoLimit /\ limit[1] # 0 THEN limit[1] ELSE total
    IN [items |-> IF truncated THEN Slice(items, stop) ELSE items,
        truncated |-> truncated,
        count |-> total]

\* for position, element in enumerate(elements, start=1): one item per
\* element (links, forms and tables alike).
AgentItems(n) == [i \in 1..n |-> [position |-> i, element |-> Elements(n)[i]]]

\* BrowserAgent._collect_links: a root_selector that matches nothing returns
\* [], False, 0 at once.
AgentCollectLinks(n, limit, root) ==
    IF root = "missing" THEN [items |-> << >>, truncated |-> FALSE, count |-> 0]
    ELSE AgentTruncate(AgentItems(n), limit)

\* A call of a BrowserAgent collector on a page with n matching elements runs
\* to its return; args, found and returned hold its arguments, n and the
\* collection it returns.
AgentReturn(a, n, value) ==
    /\ bpc = "idle"
    /\ nops < MaxOps
    /\ nops' = nops + 1
    /\ args' = a
    /\ found' = n
    /\ returned' = <<value>>
    /\ UNCHANGED <<_persist_context, _playwright, _browser, _context, _page,
                   _current_storage_state_key, contexts, pages, bpc, url, page, context,
                   exc, entry, resolved, selector_state, wait_state, instructions,
                   filled, message, browsers, trail, body_end>>
    /\ UNCHANGED regvars
    /\ UNCHANGED sidevars
AgentListLinks(l, n, r) ==
    /\ r = "missing" => n = 0
    /\ AgentReturn([Arg("list_links") EXCEPT !.limit = l, !.root_selector = r], n,
                   AgentCollectLinks(n, l, r))
AgentListForms(l, n) ==
    /\ n >= 0
    /\ AgentReturn([Arg("list_forms") EXCEPT !.limit = l], n,
                   AgentTruncate(AgentItems(n), l))
AgentListTables(l, n) ==
    /\ n >= 0
    /\ AgentReturn([Arg("list_tables") EXCEPT !.limit = l], n,
                   AgentTruncate(AgentItems(n), l))

\* One BrowserAgent: calls of its collectors with any cap, on pages with up to
\* MaxElements matching elements.
NextAgentkit ==
    \/ \E l \in Limits, n \in 0..MaxElements, r \in {"none", "found", "missing"} :
          AgentListLinks(l, n, r)
    \/ \E l \in Limits, n \in 0..MaxElements : AgentListForms(l, n)
    \/ \E l \in Limits, n \in 0..MaxElements : AgentListTables(l, n)

SpecAgentkit == InitBot /\ [][NextAgentkit]_vars

\* ------------ BrowserAgent (src/browserbot/agentkit.py): contexts and sessions
\* A BrowserAgent is used by one thread at a time (fastmcp_server calls it
\* under _agent_lock), so each operation is one step; o names the first driver
\* call of the operation that fails, if any.
Registered == {i \in SessionIds : _sessions[i] # NoSession}

OneShotMethods == {"navigate", "extract_text", "click", "list_links", "list_forms",
                   "list_tables", "take_screenshot"}

\* The exception an operation ends with.
KitExc(o) ==
    CASE o = "bad_args" -> "ValueError"
      [] o = "no_browser" -> "RuntimeError"
      [] o \in {"ok", "timeout"} -> NoExc
      [] OTHER -> "playwright.Error"

\* _new_context_for_url(url) and context.new_page() (agentkit.py:1059-1060,
\* 875-876): startup() launches the browser when no driver is held,
\* _require_browser raises without a browser, browser.new_context and
\* context.new_page create the Context and the Page or raise.
KitCreatesContext(o) ==
    o \notin {"bad_args", "launch_fails", "no_browser", "context_fails"}
KitCreatesPage(o) == KitCreatesContext(o) /\ o # "page_fails"
KitNewContext(o) ==
    /\ IF o = "bad_args"
       THEN UNCHANGED <<_playwright, _browser, browsers>>
       ELSE IF _playwright
       THEN /\ o # "launch_fails"
            /\ (o = "no_browser") <=> ~_browser
            /\ (_browser /\ browsers[Len(browsers)].closed) => o = "context_fails"
            /\ UNCHANGED <<_playwright, _browser, browsers>>
       ELSE /\ o # "no_browser"
            /\ _playwright' = TRUE
            /\ _browser' = (o # "launch_fails")
            /\ browsers' = IF o = "launch_fails" THEN browsers
                           ELSE Append(browsers, [closed |-> FALSE])
    /\ context' = IF KitCreatesContext(o) THEN Len(contexts) + 1 ELSE 0
    /\ page' = IF KitCreatesPage(o) THEN Len(pages) + 1 ELSE 0

\* The contexts and pages after the operation: the created ones, closed when
\* the operation reached a context.close().
KitContexts(o, closes) ==
    IF KitCreatesContext(o)
    THEN Append(contexts, [closed |-> closes, persistent |-> FALSE,
                           storage_state |-> NoState])
    ELSE contexts
KitPages(o, closes) ==
    IF KitCreatesPage(o)
    THEN Append(pages, [context |-> Len(contexts) + 1, closed |-> closes,
                        url |-> IF o \in {"timeout", "goto_fails"} THEN AboutBlank
                                ELSE Landed(<<"https://a.test", "/">>)])
    ELSE pages

\* What every step of a BrowserAgent leaves alone.
KitFrame ==
    /\ UNCHANGED <<_persist_context, _context, _page, _current_storage_state_key, bpc,
                   url, entry, resolved, selector_state, wait_state, instructions,
                   filled, message, trail, found, body_end>>
    /\ UNCHANGED regvars
    /\ UNCHANGED <<hostvars, mcpvars>>

\* navigate, extract_text, click, list_links, list_forms, list_tables,
\* take_screenshot: context, page, error = self._open_page(...), then
\* try: ... finally: context.close().  _open_page returns the context after a
\* TimeoutError of page.goto; a failing new_page() and any other error of
\* page.goto leave _open_page as exceptions, before the caller's try.
OneShot(m, o) ==
    /\ nops < MaxOps
    /\ nops' = nops + 1
    /\ args' = [method |-> m, session_id |-> 0]
    /\ o \in {"bad_args", "launch_fails", "no_browser", "context_fails", "page_fails",
              "timeout", "goto_fails", "body_fails", "ok"}
    /\ KitNewContext(o)
    /\ LET closes == o \in {"timeout", "body_fails", "ok"}
       IN /\ contexts' = KitContexts(o, closes)
          /\ pages' = KitPages(o, closes)
    /\ exc' = KitExc(o)
    /\ returned' = IF KitExc(o) = NoExc THEN <<[error |-> o]>> ELSE << >>
    /\ UNCHANGED kitvars
    /\ KitFrame

\* open_session: the context is closed after a TimeoutError of page.goto;
\* otherwise _register_session stores the pair under a new uuid4 and
\* _session_result reads page.url and page.title(), which may raise.
OpenSession(o) ==
    /\ nops < MaxOps
    /\ nops' = nops + 1
    /\ Registered # SessionIds
    /\ o \in {"bad_args", "launch_fails", "no_browser", "context_fails", "page_fails",
              "timeout", "goto_fails", "result_fails", "ok"}
    /\ KitNewContext(o)
    /\ contexts' = KitContexts(o, o = "timeout")
    /\ pages' = KitPages(o, o = "timeout")
    /\ exc' = KitExc(o)
    /\ IF o \in {"result_fails", "ok"}
       THEN \E session_id \in SessionIds \ Registered :
               /\ _sessions' = [_sessions EXCEPT ![session_id] =
                                   [context |-> context', page |-> page']]
               /\ args' = [method |-> "open_session", session_id |-> session_id]
               /\ issued' = IF o = "ok" THEN issued \cup {session_id} ELSE issued
               /\ returned' = IF o = "ok" THEN <<[session_id |-> session_id]>> ELSE << >>
       ELSE /\ args' = [method |-> "open_session", session_id |-> 0]
            /\ returned' = IF o = "timeout" THEN <<[error |-> o]>> ELSE << >>
            /\ UNCHANGED kitvars
    /\ KitFrame

\* _SessionState.close(): page.close() and context.close(), their exceptions
\* swallowed.
SessionClosed(S) ==
    /\ contexts' = [c \in DOMAIN contexts |->
                      IF \E i \in S : _sessions[i].context = c
                      THEN [contexts[c] EXCEPT !.closed = TRUE] ELSE contexts[c]]
    /\ pages' = [q \in DOMAIN pages |->
                   IF \E i \in S : _sessions[i].context = pages[q].context
                   THEN [pages[q] EXCEPT !.closed = TRUE] ELSE pages[q]]

\* close_session(session_id): _pop_session raises KeyError for an id without
\* entry; then _session_result reads the page, which may raise, and
\* session.close() runs.
CloseSession(session_id, o) ==
    /\ nops < MaxOps
    /\ nops' = nops + 1
    /\ args' = [method |-> "close_session", session_id |-> session_id]
    /\ o \in {"result_fails", "ok"}
    /\ IF session_id \notin Registered
       THEN /\ o = "ok"
            /\ exc' = "KeyError"
            /\ returned' = << >>
            /\ UNCHANGED <<kitvars, contexts, pages>>
       ELSE /\ _sessions' = [_sessions EXCEPT ![session_id] = NoSession]
            /\ exc' = KitExc(o)
            /\ IF o = "ok"
               THEN /\ SessionClosed({session_id})
                    /\ issued' = issued \ {session_id}
                    /\ returned' = <<[session_id |-> session_id]>>
               ELSE /\ returned' = << >>
                    /\ UNCHANGED <<issued, contexts, pages>>
    /\ UNCHANGED <<_playwright, _browser, browsers, context, page>>
    /\ KitFrame

\* session_goto(session_id, url): _require_session raises KeyError for an id
\* without entry; page.goto lands, times out (a timeout result is returned)
\* or raises.
SessionGoto(session_id, o) ==
    /\ nops < MaxOps
    /\ nops' = nops + 1
    /\ args' = [method |-> "session_goto", session_id |-> session_id]
    /\ o \in {"timeout", "goto_fails", "ok"}
    /\ IF session_id \notin Registered
       THEN /\ o = "ok"
            /\ exc' = "KeyError"
            /\ returned' = << >>
            /\ UNCHANGED pages
       ELSE /\ exc' = KitExc(o)
            /\ returned' = IF KitExc(o) = NoExc THEN <<[session_id |-> session_id]>> ELSE << >>
            /\ pages' = IF o = "ok"
                        THEN [pages EXCEPT ![_sessions[session_id].page].url =
                                               Landed(<<"https://b.test", "/">>)]
                        ELSE pages
    /\ UNCHANGED <<_playwright, _browser, browsers, contexts, context, page>>
    /\ UNCHANGED kitvars
    /\ KitFrame

\* shutdown(): every session is popped and closed; then browser.close() and
\* playwright.stop(), neither guarded: a browser.close() that raises leaves the
\* browser held (its process gone or still running) and the driver running.
AgentShutdown(o) ==
    /\ nops < MaxOps
    /\ nops' = nops + 1
    /\ args' = [method |-> "shutdown", session_id |-> 0]
    /\ o \in {"raises_live", "raises_gone", "stop_fails", "ok"}
    /\ _sessions' = [i \in SessionIds |-> NoSession]
    /\ issued' = {}
    /\ IF ~_browser
       THEN /\ o \in {"stop_fails", "ok"}
            /\ o = "stop_fails" => _playwright
            /\ SessionClosed(Registered)
            /\ UNCHANGED <<_browser, browsers>>
            /\ _playwright' = (o = "stop_fails")
       ELSE IF o = "raises_live"
       THEN /\ SessionClosed(Registered)
            /\ UNCHANGED <<_playwright, _browser, browsers>>
       ELSE /\ contexts' = [c \in DOMAIN contexts |-> [contexts[c] EXCEPT !.closed = TRUE]]
            /\ pages' = [q \in DOMAIN pages |-> [pages[q] EXCEPT !.closed = TRUE]]
            /\ browsers' = [browsers EXCEPT ![Len(browsers)].closed = TRUE]
            /\ _browser' = (o = "raises_gone")
            /\ _playwright' = (o # "ok")
    /\ exc' = KitExc(o)
    /\ returned' = << >>
    /\ UNCHANGED <<context, page>>
    /\ KitFrame

\* One BrowserAgent: one-shot operations, sessions opened, used and closed
\* under ids the caller was given or made up, and shutdowns.
KitOutcomes == {"bad_args", "launch_fails", "no_browser", "context_fails", "page_fails",
                "timeout", "goto_fails", "body_fails", "result_fails", "stop_fails",
                "raises_live", "raises_gone", "ok"}
KnownIds == issued \cup (SessionIds \ Registered)
NextSessions ==
    \/ \E m \in OneShotMethods, o \in KitOutcomes : OneShot(m, o)
    \/ \E o \in KitOutcomes : OpenSession(o)
    \/ \E session_id \in KnownIds, o \in KitOutcomes : CloseSession(session_id, o)
    \/ \E session_id \in KnownIds, o \in KitOutcomes : SessionGoto(session_id, o)
    \/ \E o \in KitOutcomes : AgentShutdown(o)

SpecSessions == InitBot /\ [][NextSessions]_vars

\* --------------------------------------- src/browserbot/fastmcp_server.py
\* create_agent(headless=h): a BrowserAgent that holds no browser.
NewAgent(h) == [headless |-> h, live |-> FALSE, shutdowns |-> 0, calls |-> 0]

\* What every step of fastmcp_server leaves alone.
McpFrame ==
    /\ UNCHANGED <<_session_config, _session_agents, _session_registry_lock, bundles,
                   client_id, method, bundle, headless_arg, result, raised, cbundles,
                   removed, preexisting>>
    /\ UNCHANGED botvars
    /\ UNCHANGED <<hostvars, kitvars>>

\* A tool coroutine (navigate and the others, fastmcp_server.py:305-307):
\* `_call_agent(_agent.navigate, ...)` reads the global _agent and binds its
\* method on the event loop, then asyncio.to_thread hands _call to a thread.
ToolCall(t) ==
    /\ pc[t] = "idle"
    /\ ncalls < MaxCalls
    /\ ncalls' = ncalls + 1
    /\ func' = [func EXCEPT ![t] = _agent]
    /\ pc' = [pc EXCEPT ![t] = "to_thread"]
    /\ UNCHANGED <<_agent, _agent_lock, agents, cpc, cargs, nconfigs>>
    /\ McpFrame

\* _call: `with _agent_lock:` is entered by the thread.
CallAcquire(t) ==
    /\ pc[t] = "to_thread"
    /\ _agent_lock = Free
    /\ _agent_lock' = t
    /\ pc' = [pc EXCEPT ![t] = "call"]
    /\ UNCHANGED <<_agent, agents, func, cpc, cargs, ncalls, nconfigs>>
    /\ McpFrame

\* return func(*args, **kwargs): the bound method runs on its agent, whose
\* startup() launches a browser when it holds none (agentkit.py:123-128,
\* 1104-1106); the lock is released when the method returns or raises.
CallRun(t, ok) ==
    /\ pc[t] = "call"
    /\ agents' = [agents EXCEPT ![func[t]].live = TRUE, ![func[t]].calls = @ + 1]
    /\ raised' = [raised EXCEPT ![t] = IF ok THEN NoExc ELSE "playwright.Error"]
    /\ _agent_lock' = Free
    /\ pc' = [pc EXCEPT ![t] = "idle"]
    /\ UNCHANGED <<_agent, func, cpc, cargs, ncalls, nconfigs>>
    /\ UNCHANGED <<_session_config, _session_agents, _session_registry_lock, bundles,
                   client_id, method, bundle, headless_arg, result, cbundles,
                   removed, preexisting>>
    /\ UNCHANGED botvars
    /\ UNCHANGED <<hostvars, kitvars>>

\* configure_browser_agent(headless=h) -> _replace_agent: `with _agent_lock:`.
ReplaceAcquire(h) ==
    /\ cpc = "idle"
    /\ nconfigs < MaxConfigs
    /\ _agent_lock = Free
    /\ nconfigs' = nconfigs + 1
    /\ cargs' = [cargs EXCEPT !.headless = h]
    /\ _agent_lock' = Configurer
    /\ cpc' = "replace_shutdown"
    /\ UNCHANGED <<_agent, agents, func, pc, ncalls>>
    /\ McpFrame

\* try: _agent.shutdown() except Exception: pass.  A shutdown that raises in
\* browser.close() may leave the browser running.
ReplaceShutdown(o) ==
    /\ cpc = "replace_shutdown"
    /\ o \in {"ok", "raises_live"}
    /\ o = "raises_live" => agents[_agent].live
    /\ agents' = [agents EXCEPT ![_agent].live = (o = "raises_live"),
                                ![_agent].shutdowns = @ + 1]
    /\ cpc' = "replace_create"
    /\ UNCHANGED <<_agent, _agent_lock, func, pc, cargs, ncalls, nconfigs>>
    /\ McpFrame

\* _agent = create_agent(headless=headless); the lock is released.
ReplaceCreate ==
    /\ cpc = "replace_create"
    /\ agents' = Append(agents, NewAgent(cargs.headless))
    /\ _agent' = Len(agents')
    /\ _agent_lock' = Free
    /\ cpc' = "idle"
    /\ UNCHANGED <<func, pc, cargs, ncalls, nconfigs>>
    /\ McpFrame

\* Tool calls on two threads and replacements of the agent by a third.
NextMcp ==
    \/ \E t \in Workers : ToolCall(t)
    \/ \E t \in Workers : CallAcquire(t)
    \/ \E t \in Workers, ok \in BOOLEAN : CallRun(t, ok)
    \/ \E h \in BOOLEAN : ReplaceAcquire(h)
    \/ \E o \in {"ok", "raises_live"} : ReplaceShutdown(o)
    \/ ReplaceCreate

SpecMcp == Init /\ [][NextMcp]_vars

\* ================================================================ claims
RegistryRange == {_session_agents[k] : k \in Keys} \ {0}
BundleIds == 1..Len(bundles)

\* C1: two operations dispatched through _call_agent never execute a BrowserBot
\* method on the same manager at the same time; the executing one is the
\* holder of the bundle's lock, the other one waits.
C1_OneMethodPerManager ==
    /\ \A t1, t2 \in Workers :
         (t1 # t2 /\ pc[t1] = "exec" /\ pc[t2] = "exec") => bundle[t1] # bundle[t2]
    /\ \A t \in Workers : pc[t] = "exec" => bundles[bundle[t]].lock = t
\* An operation executes while a second one of the same client waits for the lock.
C1_Witness ==
    \E t1, t2 \in Workers :
        /\ t1 # t2
        /\ pc[t1] = "exec" /\ pc[t2] = "lock_wait"
        /\ bundle[t1] = bundle[t2]

\* C2: while an operation holds its bundle lock and executes, no other thread
\* issues browser calls on that manager, the shutdown of _reset_sessions
\* included.
C2_ShutdownWaitsForOperation ==
    \A t \in Workers :
        pc[t] = "exec" =>
            ~(cpc = "reset_shutdown" /\ Head(cbundles) = bundle[t]
              /\ bundles[bundle[t]].live)

\* C3: between two resets every call of _get_agent_bundle with one key returns
\* the one bundle the registry holds for that key; None and "" map to the
\* default key; an entry of the registry changes only in _reset_sessions.
C3_OneBundlePerKey ==
    /\ \A t \in Workers :
         (bundle[t] # 0 /\ bundle[t] \notin removed) =>
             _session_agents[bundles[bundle[t]].key] = bundle[t]
    /\ \A t \in Workers :
         (pc[t] # "idle" /\ bundle[t] # 0) =>
             bundles[bundle[t]].key =
                 (IF client_id[t] \in {NoneId, ""} THEN "__default__" ELSE client_id[t])
    /\ \A k \in Keys : _session_agents[k] # 0 => bundles[_session_agents[k]].key = k
C3_RemovedOnlyByReset ==
    \A k \in Keys :
        (_session_agents[k] # 0 /\ _session_agents'[k] # _session_agents[k]) =>
            (cpc = "reset" /\ cpc' = "reset_loop" /\ _session_agents'[k] = 0)
C3_Registry == [](C3_OneBundlePerKey) /\ [][C3_RemovedOnlyByReset]_vars
\* Two calls, one with None and one with "", hold the same live bundle.
C3_Witness ==
    \E t1, t2 \in Workers :
        /\ pc[t1] # "idle" /\ pc[t2] # "idle"
        /\ client_id[t1] = NoneId /\ client_id[t2] = ""
        /\ bundle[t1] # 0 /\ bundle[t1] = bundle[t2]
        /\ bundle[t1] \notin removed

\* C4: once configure_browser_agent(h, p) has returned, every bundle built
\* before the call is out of the registry and had shutdown() called, and every
\* bundle in the registry was built with headless=h, persist_context=p.
C4_ResetAppliesConfig ==
    (cpc = "idle" /\ nconfigs > 0) =>
        /\ \A b \in preexisting : b \notin RegistryRange /\ bundles[b].shutdowns > 0
        /\ \A b \in RegistryRange :
             /\ bundles[b].headless = cargs.headless
             /\ bundles[b].persist_context = cargs.persist_context
\* A configure call that changed the configuration has returned, it discarded
\* a bundle, and a bundle was built since.
C4_Witness ==
    /\ cpc = "idle" /\ nconfigs > 0
    /\ preexisting # {}
    /\ RegistryRange # {}
    /\ ~cargs.headless

\* C5: _call_with_errors returns the success payload or {error, operation}:
\* operation is the method name, error is "timeout" for a driver timeout,
\* "playwright" for any other driver error and "unexpected" for the rest.
C5_ErrorPayload ==
    \A t \in Workers :
        (pc[t] = "idle" /\ result[t] # NoResult) =>
            \/ raised[t] = NoExc /\ result[t] = [payload |-> "success"]
            \/ /\ raised[t] # NoExc
               /\ DOMAIN result[t] = {"error", "operation"}
               /\ result[t].operation = method[t]
               /\ result[t].error =
                    (IF raised[t] = "playwright.TimeoutError" THEN "timeout"
                     ELSE IF raised[t] = "playwright.Error" THEN "playwright"
                     ELSE "unexpected")
\* A driver timeout in click has been reported.
C5_Witness ==
    /\ pc[1] = "idle" /\ raised[1] = "playwright.TimeoutError"
    /\ method[1] = "click"
    /\ DOMAIN result[1] = {"error", "operation"}

\* C6: a failing operation leaves the registry, the configuration and every
\* other bundle as they were and releases its client's lock; a bundle lock is
\* held only by a thread that is executing a method.
C6_FailingStep ==
    \A t \in Workers :
        (pc[t] = "exec" /\ pc'[t] = "idle" /\ raised'[t] # NoExc) =>
            /\ _session_agents' = _session_agents
            /\ _session_config' = _session_config
            /\ Len(bundles') = Len(bundles)
            /\ \A b \in BundleIds : b # bundle[t] => bundles'[b] = bundles[b]
            /\ bundles'[bundle[t]].lock = Free
C6_LockHeldOnlyInMethod ==
    \A b \in BundleIds :
        bundles[b].lock # Free =>
            (pc[bundles[b].lock] = "exec" /\ bundle[bundles[b].lock] = b)
C6_FailureIsLocal == [](C6_LockHeldOnlyInMethod) /\ [][C6_FailingStep]_vars
\* After a failed operation of a client another operation of the same client
\* holds the lock and executes.
C6_Witness ==
    \E t1, t2 \in Workers :
        /\ t1 # t2
        /\ pc[t1] = "idle" /\ raised[t1] # NoExc
        /\ pc[t2] = "exec" /\ bundle[t2] = bundle[t1]

\* C7: in disposable mode every Context an operation created is closed once
\* the operation has returned or raised, on every exit path.
C7_DisposableContextsClosed ==
    (~_persist_context /\ bpc = "idle") =>
        \A c \in DOMAIN contexts : contexts[c].closed

\* C8: in persistent mode, once a call has navigated the page (and returned,
\* the page still open), a call with url omitted runs on the held Context and
\* Page and closes or recreates nothing, also when the Context was built from
\* a cached storage state.
C8_OmittedUrlStep ==
    (/\ bpc = "ensure_page" /\ bpc' # "ensure_page"
     /\ exc = NoExc
     /\ url = NoUrl
     /\ _context # 0 /\ _page # 0
     /\ ~pages[_page].closed
     /\ pages[_page].url # AboutBlank) =>
        /\ bpc' = "navigate"
        /\ page' = _page
        /\ <<_context, _page, contexts, pages>>' = <<_context, _page, contexts, pages>>
C8_OmittedUrlReusesPage == [][C8_OmittedUrlStep]_vars

\* C9: in persistent mode _ensure_persistent_page recreates the Context exactly
\* when no Context or Page is held, the Page is closed, or the storage state
\* resolved for the call differs from the key of the held Context; a call that
\* resolves to the storage state of the call before, with the Page open, reuses
\* the Context, so a switch of storage state recreates once.
C9_EnsureStep ==
    (bpc = "ensure_page" /\ bpc' # "ensure_page") =>
        LET st == StorageStateForUrl(url)
            needs == \/ _context = 0
                     \/ _page = 0
                     \/ pages[_page].closed
                     \/ _current_storage_state_key # st
        IN /\ (bpc' = "persistent_context") <=> needs
           /\ ~needs => /\ bpc' = "navigate"
                        /\ <<_context, _page, contexts, pages>>'
                               = <<_context, _page, contexts, pages>>
           /\ (_context # 0 /\ _page # 0 /\ ~pages[_page].closed /\ resolved = st)
                  => ~needs
C9_CreationStep ==
    (_persist_context /\ Len(contexts') # Len(contexts)) =>
        (bpc = "persistent_context" /\ Len(contexts') = Len(contexts) + 1)
C9_RecreatedExactlyWhenNeeded == [][C9_EnsureStep /\ C9_CreationStep]_vars
\* Three calls, to a host with state A and twice to a host with state B: the
\* third runs on the Context the second created, the second Context in total.
C9_Witness ==
    /\ _persist_context /\ bpc = "body" /\ nops = 3
    /\ url = <<"https://b.test", "/">>
    /\ Len(contexts) = 2
    /\ contexts[1].storage_state = "storage/a.test.json"
    /\ contexts[2].storage_state = "storage/b.test.json"
    /\ entry.page = page /\ pages[page].context = 2

\* C10: a persistent Page that was closed when a call began is not the page
\* _ensure_persistent_page returns, nor the page the body runs on: the call
\* created a new Page in a new Context.
C10_ClosedPageNotReused ==
    (_persist_context /\ bpc \in {"navigate", "body"} /\ entry.closed) =>
        /\ page # entry.page
        /\ pages[page].context # pages[entry.page].context
        /\ (bpc = "navigate" => ~contexts[pages[page].context].closed)
\* The body runs on a new page after the held page had closed.
C10_Witness ==
    /\ _persist_context /\ bpc = "body"
    /\ entry.page # 0 /\ entry.closed
    /\ page # entry.page /\ ~pages[page].closed

\* C11: in persistent mode, a call with no url on a manager whose Page has
\* never navigated raises ValueError (the initial navigation requires a url)
\* and its body never runs on the page.
C11_NoUrlBeforeNavigationFails ==
    (_persist_context /\ url = NoUrl /\ bpc = "body") =>
        pages[page].url # AboutBlank

\* C12: for every operation and both modes, a call whose wait_until is outside
\* {load, domcontentloaded, networkidle}, or whose selector state is outside
\* {attached, detached, visible, hidden}, raises in the step that calls it,
\* before any browser call, and leaves the manager, its contexts and its pages
\* as they were; the error is the one that enumerates the accepted set when
\* the operation's other arguments pass their own checks.  A value inside the
\* set is what the validation returns.
C12_TakesState(a) == a.method \in {"submit_form", "wait_for_selector"}
C12_OtherArgumentsPass(a) ==
    /\ a.method \in {"extract_text", "click", "wait_for_selector", "submit_form"}
           => a.selector # ""
    /\ a.method = "wait" => a.delay_ms >= 0
    /\ a.method = "screenshot" => a.image_format \in {"png", "jpeg"}
    /\ a.method = "evaluate_js" => a.script # ""
    /\ a.method \in {"fill_fields", "submit_form"} =>
           \/ "none" \in DOMAIN a.fields
           \/ a.fields \in {f \in OpFields \ {[none |-> TRUE]} : Len(f.list) > 0}
           \/ (a.method = "submit_form" /\ a.fields = [list |-> << >>])
C12_CallStep ==
    (bpc = "idle" /\ nops' = nops + 1) =>
        LET a == args'
            badWait == a.wait_until \notin ALLOWED_WAIT_STATES
            badState == C12_TakesState(a) /\ a.state \notin ALLOWED_SELECTOR_STATES
        IN /\ (badWait \/ badState) =>
                /\ bpc' = "idle"
                /\ exc' \in {"ValueError", "TypeError"}
                /\ <<_persist_context, _playwright, _browser, _context, _page,
                      _current_storage_state_key, contexts, pages>>'
                     = <<_persist_context, _playwright, _browser, _context, _page,
                         _current_storage_state_key, contexts, pages>>
                /\ C12_OtherArgumentsPass(a) =>
                       message' = IF badState
                                  THEN "state must be one of {attached, detached, hidden, visible}."
                                  ELSE "wait_until must be one of {domcontentloaded, load, networkidle}."
           /\ bpc' # "idle" =>
                /\ wait_state' = a.wait_until
                /\ C12_TakesState(a) => selector_state' = a.state
C12_InvalidStateRejectedFirst == [][C12_CallStep]_vars
\* On a manager that holds a navigated page, click with an unknown wait_until
\* has raised the enumerating error.
C12_Witness ==
    /\ bpc = "idle" /\ exc = "ValueError"
    /\ args.method = "click" /\ args.wait_until = "bogus"
    /\ message = "wait_until must be one of {domcontentloaded, load, networkidle}."
    /\ _page # 0 /\ ~pages[_page].closed /\ pages[_page].url # AboutBlank

\* C13: every page-load state a caller passes, wait_until and the post_wait of
\* click and submit_form, is in {load, domcontentloaded, networkidle} once the
\* call has issued a browser call.
C13_LoadStatesValidatedFirst ==
    (bpc \notin {"idle", "ensure_browser"}) =>
        /\ args.wait_until \in ALLOWED_WAIT_STATES
        /\ (args.method \in {"click", "submit_form"} /\ args.post_wait # "")
               => args.post_wait \in ALLOWED_WAIT_STATES

\* C14: a batch with an instruction whose strategy string is none of fill,
\* type, check, uncheck, select makes fill_fields fail before any browser call
\* and before any instruction of the batch is applied to the page: no call
\* that has issued a browser call, or filled a field, holds such an instruction.
C14_Unsupported(instruction) ==
    /\ "strategy" \in DOMAIN instruction
    /\ instruction.strategy.type = "str"
    /\ instruction.strategy.text # ""
    /\ Lower(instruction.strategy.text) \notin {"fill", "type", "check", "uncheck", "select"}
C14_UnsupportedStrategyRejectedFirst ==
    (bpc \notin {"idle", "ensure_browser"} \/ filled # << >>) =>
        \A k \in DOMAIN instructions : ~C14_Unsupported(instructions[k])

\* C15: fill_fields fails in the step that calls it, before the page is
\* acquired and with the manager, contexts and pages as they were, when the
\* field set has no entry or an entry whose selector is empty once trimmed, for
\* a mapping, a list of pairs and a list of descriptors.
C15_RawSelector(e) ==
    IF "pair" \in DOMAIN e THEN e.pair[1]
    ELSE IF "dict" \in DOMAIN e /\ "selector" \in DOMAIN e.dict THEN e.dict.selector
    ELSE << >>
C15_CallStep ==
    (bpc = "idle" /\ nops' = nops + 1 /\ args'.method = "fill_fields") =>
        LET es == FieldEntries(args'.fields)
            unusable == \/ es = << >>
                        \/ \E i \in DOMAIN es : Strip(C15_RawSelector(es[i])) = << >>
        IN /\ unusable =>
                /\ bpc' = "idle"
                /\ exc' \in {"ValueError", "TypeError"}
                /\ <<_persist_context, _playwright, _browser, _context, _page,
                      _current_storage_state_key, contexts, pages>>'
                     = <<_persist_context, _playwright, _browser, _context, _page,
                         _current_storage_state_key, contexts, pages>>
           /\ bpc' # "idle" => ~unusable
C15_FieldsValidatedBeforePage == [][C15_CallStep]_vars
\* A mapping whose second key is blank was rejected with nothing started.
C15_Witness ==
    /\ bpc = "idle" /\ exc = "ValueError"
    /\ message = "Field selector must be a non-empty string."
    /\ "map" \in DOMAIN args.fields
    /\ Len(args.fields.map) = 2
    /\ args.fields.map[1][1] = SelA /\ args.fields.map[2][1] = SelBlank
    /\ ~_playwright /\ pages = << >>

\* C16: _normalize_fields returns one instruction per entry, in the order of
\* the entries, each with the entry's selector trimmed and its value
\* unchanged; a descriptor's strategy is the value under the first key it
\* carries of strategy, mode, action, and there is none without these keys.
C16_OneInstructionPerEntry ==
    (bpc # "idle" /\ args.method = "fill_fields") =>
        LET es == FieldEntries(args.fields)
        IN /\ Len(instructions) = Len(es)
           /\ \A i \in DOMAIN es :
                 IF "pair" \in DOMAIN es[i]
                 THEN /\ instructions[i].selector = Strip(es[i].pair[1])
                      /\ instructions[i].value = es[i].pair[2]
                      /\ "strategy" \notin DOMAIN instructions[i]
                 ELSE LET d == es[i].dict
                      IN /\ instructions[i].selector = Strip(d.selector)
                         /\ instructions[i].value = d.value
                         /\ "strategy" \in DOMAIN d =>
                                instructions[i].strategy = d.strategy
                         /\ ("strategy" \notin DOMAIN d /\ "mode" \in DOMAIN d) =>
                                instructions[i].strategy = d.mode
                         /\ ({"strategy", "mode"} \cap DOMAIN d = {} /\ "action" \in DOMAIN d)
                                => instructions[i].strategy = d.action
                         /\ {"strategy", "mode", "action"} \cap DOMAIN d = {} =>
                                "strategy" \notin DOMAIN instructions[i]
\* A padded descriptor with mode and action after a pair: two instructions in
\* list order, the second trimmed and with the strategy of mode.
C16_Witness ==
    /\ bpc = "body" /\ args.method = "fill_fields"
    /\ "list" \in DOMAIN args.fields
    /\ Len(args.fields.list) = 2
    /\ args.fields.list[1] = [pair |-> <<SelB, PyStr("v")>>]
    /\ "dict" \in DOMAIN args.fields.list[2]
    /\ DOMAIN args.fields.list[2].dict = {"selector", "value", "mode", "action"}
    /\ args.fields.list[2].dict.selector = SelPadded
    /\ instructions[1].selector = SelB
    /\ instructions[2].selector = SelA
    /\ instructions[2].strategy = PyStr("type")

\* C17: an instruction with explicit strategy check (uncheck) is dispatched as
\* check (uncheck) whatever its value; one with no explicit strategy and value
\* True is dispatched as check with effective value True, with value False as
\* uncheck with effective value False.
C17_CheckDispatch ==
    \A k \in DOMAIN filled :
        LET instruction == instructions[k]
            r == filled[k]
        IN /\ StrategyOf(instruction) = "check" => r.action = "check"
           /\ StrategyOf(instruction) = "uncheck" => r.action = "uncheck"
           /\ ("strategy" \notin DOMAIN instruction /\ instruction.value = PyBool(TRUE))
                  => (r.action = "check" /\ r.value = PyBool(TRUE))
           /\ ("strategy" \notin DOMAIN instruction /\ instruction.value = PyBool(FALSE))
                  => (r.action = "uncheck" /\ r.value = PyBool(FALSE))
\* Explicit check with value False was dispatched as check.
C17_Witness ==
    \E k \in DOMAIN filled :
        /\ "strategy" \in DOMAIN instructions[k]
        /\ instructions[k].strategy = PyStr("check")
        /\ instructions[k].value = PyBool(FALSE)
        /\ filled[k].action = "check"

\* C18: an instruction with explicit strategy fill, type or select and a
\* boolean value is not dispatched as check or uncheck.
C18_ExplicitStrategyBeatsBoolean ==
    \A k \in DOMAIN filled :
        (/\ StrategyOf(instructions[k]) \in {"fill", "type", "select"}
         /\ instructions[k].value.type = "bool")
            => filled[k].action \notin {"check", "uncheck"}

\* C19: an instruction dispatched neither as check/uncheck nor as select is
\* dispatched as type when its explicit strategy is type or its effective
\* clear flag is false, and as fill otherwise; the effective clear flag is the
\* instruction's own clear when present, else the call's clear_existing.
C19_TypeOrFill ==
    \A k \in DOMAIN filled :
        LET instruction == instructions[k]
            own == FieldEntries(args.fields)[k]
            effective_clear ==
                IF "dict" \in DOMAIN own /\ "clear" \in DOMAIN own.dict
                THEN Truthy(own.dict.clear) ELSE args.clear_existing
        IN filled[k].action \notin {"check", "uncheck", "select"} =>
              filled[k].action =
                  IF StrategyOf(instruction) = "type" \/ ~effective_clear
                  THEN "type" ELSE "fill"
\* With clear_existing True, a descriptor with clear False and no strategy
\* was typed, not filled.
C19_Witness ==
    \E k \in DOMAIN filled :
        /\ args.clear_existing
        /\ DOMAIN instructions[k] = {"selector", "value", "clear"}
        /\ instructions[k].clear = PyBool(FALSE)
        /\ instructions[k].value = PyStr("v")
        /\ filled[k].action = "type"

\* C20: in persistent mode a call with a url navigates the page exactly when
\* the url differs from the page's current url, two urls being equal when they
\* are identical or become identical once a single trailing slash is removed;
\* a navigation leaves the page at the url the browser landed on, no
\* navigation leaves it where it was (stated for calls after which no call
\* has failed).
C20_DropSlash(u) ==
    IF u # << >> /\ u[Len(u)] = "/" THEN SubSeq(u, 1, Len(u) - 1) ELSE u
C20_SameUrl(current, target) ==
    \/ current = target
    \/ C20_DropSlash(current) = target
    \/ current = C20_DropSlash(target)
    \/ C20_DropSlash(current) = C20_DropSlash(target)
C20_NavigateStep ==
    (bpc = "navigate" /\ bpc' = "body" /\ url # NoUrl /\ exc = NoExc) =>
        IF C20_SameUrl(pages[page].url, url)
        THEN pages' = pages
        ELSE pages'[page].url = Landed(url)
C20_NavigatesIffUrlDiffers == [][C20_NavigateStep]_vars

\* C21: _collect_links issues at most 3 query attempts; an attempt that fails
\* with the invalidated-execution-context error (before the third) is followed
\* by a wait for the page's load state, and a wait that returns by a new
\* attempt; the result of the first successful attempt is returned; a failure
\* of any other kind ends the call with that error and no further attempt.
C21_LastCall == trail[Len(trail)]
C21_RetryOnStaleContext ==
    args.method = "list_links" =>
        /\ Attempts <= 3
        /\ \A i \in DOMAIN trail :
              /\ trail[i].call = (IF i % 2 = 1 THEN "evaluate" ELSE "wait_for_load_state")
              /\ i < Len(trail) => trail[i].outcome = (IF i % 2 = 1 THEN "stale" ELSE "ok")
        /\ (/\ trail # << >>
            /\ C21_LastCall = [call |-> "evaluate", outcome |-> "stale"]
            /\ Attempts < 3) => bpc = "collect_wait"
        /\ bpc = "collect_wait" => C21_LastCall.call = "evaluate"
        /\ (/\ trail # << >>
            /\ C21_LastCall = [call |-> "wait_for_load_state", outcome |-> "ok"]) =>
              bpc = "body"
        /\ (trail # << >> /\ C21_LastCall = [call |-> "evaluate", outcome |-> "ok"]) =>
              /\ bpc \in {"idle", "finally"}
              /\ exc = NoExc
              /\ returned = <<CollectResult(CollectScript(Elements(found), args.limit,
                                                          args.root_selector))>>
        /\ (trail # << >> /\ C21_LastCall.outcome = "other") =>
              /\ bpc \in {"idle", "finally"}
              /\ exc = "playwright.Error"
              /\ returned = << >>
        /\ returned # << >> => C21_LastCall = [call |-> "evaluate", outcome |-> "ok"]
\* Two attempts failed with the invalidated-context error, the third returned
\* the links of the page.
C21_Witness ==
    /\ args.method = "list_links"
    /\ Len(trail) = 5
    /\ trail[1].outcome = "stale" /\ trail[3].outcome = "stale"
    /\ trail[5] = [call |-> "evaluate", outcome |-> "ok"]
    /\ found = 2
    /\ returned # << >> /\ returned[1].total = 2
    /\ bpc = "idle" /\ exc = NoExc

\* C22: when all 3 attempts of the query fail with the invalidated-context
\* error, list_links returns an empty list with truncated false and total 0
\* and raises nothing.
C22_ExhaustedRetriesReturnEmpty ==
    (/\ args.method = "list_links"
     /\ bpc \in {"idle", "finally"}
     /\ Attempts = 3
     /\ \A i \in DOMAIN trail : trail[i].call = "evaluate" => trail[i].outcome = "stale") =>
        /\ exc = NoExc
        /\ returned = <<[links |-> << >>, truncated |-> FALSE, total |-> 0]>>

\* C23: a list_forms or list_buttons call never ends in the
\* invalidated-context error of its first query: the query is attempted again.
C23_EveryQueryRetries ==
    (/\ args.method \in {"list_forms", "list_buttons"}
     /\ body_end = "raised"
     /\ message = StaleContext) =>
        Attempts > 1

\* C24: list_links on a page with n matching elements and a cap (None or an
\* integer >= 0) reports total n, truncated exactly when the cap is an integer
\* below n, the first min(n, cap) elements (all n for None), in document
\* order, at positions 1, 2, ...
C24_Kept(n, cap) == IF cap = NoLimit \/ n <= cap[1] THEN n ELSE cap[1]
C24_Truncation ==
    (args.method = "list_links" /\ returned # << >>) =>
        LET r == returned[1]
            n == found
            cap == args.limit
        IN /\ r.total = n
           /\ r.truncated = (cap # NoLimit /\ n > cap[1])
           /\ Len(r.links) = C24_Kept(n, cap)
           /\ \A i \in 1..C24_Kept(n, cap) :
                 /\ r.links[i].position = i
                 /\ r.links[i].element = Elements(n)[i]
\* Three links on the page and a cap of 1: one link returned, marked
\* truncated.
C24_Witness ==
    /\ args.method = "list_links"
    /\ args.limit = <<1>>
    /\ found = 3
    /\ returned # << >>
    /\ returned[1].truncated
    /\ Len(returned[1].links) = 1

\* C25: BrowserAgent list_links, list_forms and list_tables called with a cap
\* (an integer >= 0, 0 included) return at most cap items, report the
\* untruncated total as count, and report truncated exactly when the total
\* exceeds the cap.
C25_AgentTruncation ==
    (args.method \in {"list_links", "list_forms", "list_tables"}
     /\ returned # << >> /\ args.limit # NoLimit) =>
        /\ Len(returned[1].items) <= args.limit[1]
        /\ returned[1].count = found
        /\ returned[1].truncated = (found > args.limit[1])

\* C26: when shutdown() ends, every resource the manager still holds has had
\* its teardown step attempted: page and context are dropped, and a browser or
\* driver still held had close() or stop() called, whatever the outcome of the
\* steps before it.
C26_Called(call) == \E i \in DOMAIN trail : trail[i].call = call
C26_BestEffortTeardown ==
    (args.method = "shutdown" /\ bpc = "idle") =>
        /\ _page = 0
        /\ _context = 0
        /\ _browser => C26_Called("browser.close")
        /\ _playwright => C26_Called("playwright.stop")

\* C27: after a shutdown() that returned, the manager holds no driver,
\* browser, context, page or storage-state key and no browser is running; a
\* step of shutdown() taken by a manager that holds nothing issues no driver
\* call and changes nothing of the manager or the driver; startup and shutdown
\* launch nothing for later use: a browser is launched again only by the
\* startup of the next operation (or a startup() call).
C27_HoldsNothing ==
    /\ ~_playwright
    /\ ~_browser
    /\ _context = 0
    /\ _page = 0
    /\ _current_storage_state_key = NoState
C27_AfterShutdown ==
    (args.method = "shutdown" /\ bpc = "idle" /\ exc = NoExc) =>
        /\ C27_HoldsNothing
        /\ \A b \in DOMAIN browsers : browsers[b].closed
C27_SecondShutdownStep ==
    (/\ bpc \in {"close_page", "close_context", "close_browser", "stop_driver"}
     /\ C27_HoldsNothing) =>
        /\ trail' = trail
        /\ C27_HoldsNothing'
        /\ UNCHANGED <<browsers, contexts, pages>>
        /\ bpc' = "idle" => exc' = NoExc
C27_LazyStartStep ==
    (args.method = "shutdown" /\ bpc = "idle" /\ exc = NoExc) =>
        /\ args'.method # "startup" => UNCHANGED <<_playwright, _browser, browsers>>
        /\ args'.method \notin {"startup", "shutdown"} => bpc' = "ensure_browser"
C27_FreshBrowserStep ==
    (bpc = "ensure_browser" /\ ~_playwright /\ bpc' # "idle") =>
        /\ browsers' = Append(browsers, [closed |-> FALSE])
        /\ _browser'
C28_Running == {b \in DOMAIN browsers : ~browsers[b].closed}
C28_LaunchStep ==
    browsers' # browsers /\ Len(browsers') > Len(browsers) =>
        /\ C28_Running = {}
        /\ ~_browser
C28_OneBrowserPerManager ==
    /\ [](Cardinality(C28_Running) <= 1)
    /\ [](_browser => browsers # << >>)
    /\ [][C28_LaunchStep]_vars
\* A second browser was launched after the first was closed by a shutdown.
C28_Witness ==
    /\ Len(browsers) = 2
    /\ browsers[1].closed
    /\ ~browsers[2].closed
    /\ _browser

\* C29: in persistent mode the step in which the body of an operation raises
\* closes nothing and leaves the manager holding the context and the page the
\* body ran on; the next call, made for the same storage state while that
\* page is still open, gets the same page and creates nothing.
C29_BodyRaisesStep ==
    (_persist_context /\ bpc = "body" /\ bpc' = "idle" /\ exc' # NoExc) =>
        /\ UNCHANGED <<_context, _page, _current_storage_state_key, contexts, pages>>
        /\ _page' = page
        /\ _context' = pages[page].context
C29_NextCallStep ==
    (_persist_context /\ bpc = "ensure_page" /\ bpc' # bpc /\ entry.body_raised) =>
        /\ _page # 0
        /\ _page = entry.page
        /\ _context = pages[_page].context
        /\ (/\ ~pages[_page].closed
            /\ _current_storage_state_key = StorageStateForUrl(url)) =>
              /\ page' = _page
              /\ UNCHANGED <<_context, _page, contexts, pages>>
C29_PageSurvivesFailure ==
    /\ [][C29_BodyRaisesStep]_vars
    /\ [][C29_NextCallStep]_vars
\* The call after one whose body raised has been given the page that body ran
\* on, still open.
C29_Witness ==
    /\ _persist_context
    /\ bpc = "navigate"
    /\ entry.body_raised
    /\ page = entry.page
    /\ ~pages[page].closed
    /\ Len(pages) = 1

\* C30: an instruction dispatched as select whose value is a mapping, or a
\* list containing mappings, with a mapping that holds none of value, label,
\* index with a value other than None, ends the call with ValueError and no
\* result for that instruction; when every such mapping holds one, the step
\* that succeeds records a select.
C30_Usable(m) == \E k \in {"value", "label", "index"} : k \in m.keys /\ k \notin m.nulls
C30_Mappings(value) ==
    IF value.type = "dict" THEN {value}
    ELSE IF value.type = "list" /\ "elems" \in DOMAIN value
    THEN {value.elems[i] : i \in {j \in DOMAIN value.elems : value.elems[j].type = "dict"}}
    ELSE {}
C30_AsSelect(instruction) ==
    /\ StrategyOf(instruction) \in {"", "select"}
    /\ instruction.value.type # "bool"
    /\ StrategyOf(instruction) = "select" \/ IsSelectValue(instruction.value)
C30_SelectStep ==
    (/\ bpc = "body"
     /\ Len(filled) < Len(instructions)
     /\ bpc' # bpc \/ filled' # filled
     /\ C30_AsSelect(instructions[Len(filled) + 1])) =>
        IF \E m \in C30_Mappings(instructions[Len(filled) + 1].value) : ~C30_Usable(m)
        THEN /\ exc' = "ValueError"
             /\ bpc' \in {"idle", "finally"}
             /\ filled' = filled
        ELSE /\ exc' # "ValueError"
             /\ filled' # filled => filled'[Len(filled')].action = "select"
C30_SelectMappingsValidated == [][C30_SelectStep]_vars
\* A select on a list whose mapping holds value: None raised ValueError after
\* an earlier field was filled.
C30_Witness ==
    /\ bpc = "idle"
    /\ exc = "ValueError"
    /\ Len(filled) = 1
    /\ Len(instructions) = 2
    /\ instructions[2].value = PyListOf(<<PyStr("o"), PyDictOf({"value"}, {"value"})>>)
    /\ DOMAIN instructions[2] = {"selector", "value"}

\* The driver call that carries out an action.
C31_Interaction(action) ==
    CASE action = "check" -> "locator.check"
      [] action = "uncheck" -> "locator.uncheck"
      [] action = "select" -> "page.select_option"
      [] action = "type" -> "page.type"
      [] action = "fill" -> "page.fill"

\* C31: when fill_fields succeeds, the audit list it returns has exactly one
\* record per normalized instruction, in instruction order, each with the
\* instruction's selector and an action among check, uncheck, select, type,
\* fill that names the driver call made for it, and count is the number of
\* instructions.
C31_AuditList ==
    (bpc = "idle" /\ args.method = "fill_fields" /\ exc = NoExc) =>
        /\ Len(returned) = 1
        /\ Len(returned[1].filled) = Len(instructions)
        /\ returned[1].count = Len(instructions)
        /\ Len(trail) = Len(instructions)
        /\ \A i \in DOMAIN instructions :
              /\ returned[1].filled[i].selector = instructions[i].selector
              /\ returned[1].filled[i].action \in {"check", "uncheck", "select", "type", "fill"}
              /\ trail[i] = [call |-> C31_Interaction(returned[1].filled[i].action),
                             outcome |-> "ok"]

\* A fill_fields call of two instructions has returned: the first was typed
\* (clear_existing false), the second unchecked (its value is False).
C31_Witness ==
    /\ bpc = "idle"
    /\ args.method = "fill_fields"
    /\ exc = NoExc
    /\ Len(instructions) = 2
    /\ returned = <<[filled |-> <<[selector |-> <<"#a">>, action |-> "type",
                                   value |-> PyStr("v")],
                                  [selector |-> <<"#b">>, action |-> "uncheck",
                                   value |-> PyBool(FALSE)]>>,
                     count |-> 2]>>
    /\ trail = <<[call |-> "page.type", outcome |-> "ok"],
                 [call |-> "locator.uncheck", outcome |-> "ok"]>>

\* The suffixes of host h cut at its label boundaries, h itself first.
C32_Suffixes(h) == {SubSeq(h, i, Len(h)) : i \in 1..Len(h)}
\* The suffixes that have a domain config whose state file exists.
C32_Qualifying(h, configs, files) ==
    {s \in C32_Suffixes(h) : s \in configs /\ StorageStatePath(s) \in files}
C32_Expected(h, configs, files) ==
    LET q == C32_Qualifying(h, configs, files)
    IN IF q = {} THEN NoState
       ELSE StorageStatePath(CHOOSE s \in q : \A t \in q : Len(t) <= Len(s))

\* C32: _storage_state_for_host returns the storage state of the longest
\* suffix of the lower-cased host, cut at label boundaries, that has a domain
\* config whose state file exists, and none when no suffix qualifies.
C32_Result ==
    (args.method = "_storage_state_for_host" /\ bpc = "idle") =>
        returned = <<C32_Expected(HostLower(args.host), args.configs, args.files)>>

\* C32: each iteration drops one label of the candidate, so the loop
\* condition is evaluated at most once per label of the host.
C32_Variant ==
    args.method = "_storage_state_for_host" =>
        /\ Len(trail) <= Len(args.host)
        /\ bpc = "host_walk" => Len(candidate) = Len(args.host) - Len(trail)

\* C32: the result is that of the longest qualifying suffix, and the walk
\* terminates for every host.
C32_LongestSuffix ==
    /\ []C32_Result
    /\ []C32_Variant
    /\ (bpc = "host_walk") ~> (bpc = "idle")

\* The walk for www.A.test, with configs for www.a.test and a.test of which
\* only the state file of a.test exists, returned the state of a.test on its
\* second candidate.
C32_Witness ==
    /\ bpc = "idle"
    /\ args.method = "_storage_state_for_host"
    /\ args.host = <<"www", "A", "test">>
    /\ args.configs = {<<"www", "a", "test">>, <<"a", "test">>}
    /\ args.files = {"storage/a.test.json"}
    /\ trail = <<<<"www", "a", "test">>, <<"a", "test">>>>
    /\ returned = <<"storage/a.test.json">>

\* Thread t holds the registry lock; thread t holds the lock of some bundle.
C33_HoldsRegistry(t) == _session_registry_lock = t
C33_HoldsBundle(t) == \E i \in DOMAIN bundles : bundles[i].lock = t

\* The steps of a call in progress on worker t, and of a reset in progress.
C33_Step(t) ==
    \/ GetBundleReadHeadless(t)
    \/ GetBundleCreate(t)
    \/ AcquireBundleLock(t)
    \/ \E e \in {NoExc, "playwright.TimeoutError"} : MethodEnd(t, e)
C33_ResetStep ==
    \/ ResetClear
    \/ ResetShutdownStart
    \/ ResetShutdownEnd
    \/ ResetReturn
\* Worker t starts a call for a client whose key is not k.
C33_StartOther(t, k) ==
    \E cid \in {c \in ClientIds : SessionKey(c) # k} :
        GetBundleFound(t, cid, "navigate") \/ GetBundleMissing(t, cid, "navigate")

\* C33: no thread holds the registry lock and a bundle lock at once, and a
\* thread inside a browser call (a method, a shutdown) does not hold the
\* registry lock.
C33_LockOrder ==
    /\ \A t \in Workers : ~(C33_HoldsRegistry(t) /\ C33_HoldsBundle(t))
    /\ \A t \in Workers : pc[t] = "exec" => ~C33_HoldsRegistry(t)
    /\ cpc = "reset_shutdown" => ~C33_HoldsRegistry(Configurer)

\* C33: the locks cannot deadlock: a thread that holds a lock is never
\* waiting, and whenever a call or a reset is in progress some thread in
\* progress can take its next step.
C33_NoDeadlock ==
    /\ \A t \in Workers :
          (C33_HoldsRegistry(t) \/ C33_HoldsBundle(t)) => ENABLED C33_Step(t)
    /\ ((\E t \in Workers : pc[t] # "idle") \/ cpc # "idle") =>
          ENABLED ((\E t \in Workers : C33_Step(t)) \/ C33_ResetStep)

\* C33: while worker s is inside a browser call of its manager, and stays
\* there, a call for another client on worker t can take each of its steps,
\* the creation of its bundle included, and can start.
C33_OtherClientsProceed ==
    \A s, t \in Workers :
        (s # t /\ pc[s] = "exec") =>
            /\ (/\ pc[t] \in {"get_headless", "get_create"}
                /\ SessionKey(client_id[t]) # bundles[bundle[s]].key) => ENABLED C33_Step(t)
            /\ (/\ pc[t] \in {"lock_wait", "exec"}
                /\ bundles[bundle[t]].key # bundles[bundle[s]].key) => ENABLED C33_Step(t)
            /\ (pc[t] = "idle" /\ ncalls < MaxCalls) =>
                  ENABLED C33_StartOther(t, bundles[bundle[s]].key)

\* C33: the lock discipline, the absence of deadlock and the independence of
\* clients.
C33_LocksNeverNest ==
    /\ C33_LockOrder
    /\ C33_NoDeadlock
    /\ C33_OtherClientsProceed

\* Worker 1 is inside a browser call for the default client, holding the lock
\* of its bundle, while worker 2 holds the registry lock and is about to store
\* the bundle it creates for client "a".
C33_Witness ==
    /\ pc[1] = "exec"
    /\ bundles[bundle[1]].lock = 1
    /\ bundles[bundle[1]].key = _SESSION_KEY_DEFAULT
    /\ pc[2] = "get_create"
    /\ client_id[2] = "a"
    /\ _session_registry_lock = 2

\* C34: once _reset_sessions has returned and every operation that was in
\* flight or had fetched its bundle has finished, no manager removed from the
\* registry owns a live browser process.
C34_DiscardedManagersStayDown ==
    (/\ cpc = "idle"
     /\ nconfigs > 0
     /\ \A t \in Workers : pc[t] = "idle") =>
        \A i \in removed : ~bundles[i].live

\* C35: in persistent mode at most one persistent Context is live per manager
\* at any time, and it is the held one; the held Page belongs to the held
\* Context; a recreation creates the new Context only after every earlier
\* persistent Context and Page is closed, also when the creation before it
\* stopped after the Context (the Page creation failed).
C35_LivePersistent ==
    {c \in DOMAIN contexts : contexts[c].persistent /\ ~contexts[c].closed}
C35_Held ==
    /\ C35_LivePersistent \subseteq {_context}
    /\ _page # 0 => /\ _context # 0
                    /\ pages[_page].context = _context
C35_RecreationStep ==
    (_persist_context /\ Len(contexts') # Len(contexts)) =>
        /\ C35_LivePersistent = {}
        /\ \A q \in DOMAIN pages : pages[q].closed
        /\ _context' = Len(contexts')
        /\ C35_LivePersistent' = {_context'}
C36_DisposableHoldsNothing ==
    ~_persist_context =>
        /\ _context = 0
        /\ _page = 0
        /\ _current_storage_state_key = NoState
        /\ \A c \in DOMAIN contexts : ~contexts[c].persistent
        /\ bpc = "idle" => \A c \in DOMAIN contexts : contexts[c].closed

\* C37: _normalize_fields is idempotent: whenever it accepted its input,
\* applying it to the instruction list it returned returns that list.
C37_Idempotent ==
    (bpc = "idle" /\ nops = 2) => returned = <<instructions>>

\* C38: the session ids registered in a BrowserAgent are at every point
\* exactly the ids a successful open_session returned and no close_session or
\* shutdown has closed since.
C38_SessionMap == Registered = issued

\* C39: a Context created by a one-shot BrowserAgent operation is closed once
\* the operation has returned or raised, whichever call failed; a Context
\* created by open_session is closed unless it is the Context of a registered
\* session.
C39_ContextsClosed ==
    (args.method \in OneShotMethods \cup {"open_session"} /\ context # 0) =>
        \/ contexts[context].closed
        \/ \E i \in Registered : _sessions[i].context = context

\* C40: in fastmcp_server a tool call that holds the global lock runs its
\* method on the agent installed at that moment, under every interleaving of
\* tool calls with _replace_agent: no operation runs on an agent that has
\* been shut down and replaced.
C40_RunsOnInstalledAgent ==
    \A t \in Workers : pc[t] = "call" => func[t] = _agent

====
